---- MODULE Spec2Model ----
(***************************************************************************)
(* A model of the jagent request pipeline: the failsafe executor           *)
(* (agent/failsafe.py), the chat capability and compliance guard           *)
(* (agent/agent.py, agent/compliance.py) and the router loop (jagent.py).  *)
(*                                                                         *)
(* Texts are TLA+ strings handled character by character (Len, SubSeq and  *)
(* \o work on strings in TLC), so lower(), substring search, startswith    *)
(* and the regular expressions of the source are computed, not assumed.    *)
(* Strings are ASCII: the typographic apostrophe of the source's refusal   *)
(* message and of PRICE_TICKER_REGEX is written as ' here.                 *)
(***************************************************************************)
EXTENDS Integers, Sequences, FiniteSets, TLC

VARIABLES
    pc,         \* position of the caller: main()'s loop, or the direct caller
    conn,       \* main: TRUE iff a database connection is open (conn is not None)
    uid,        \* main: the user's row id, 0 for None
    risk_tol,   \* main: the session risk tolerance
    tol,        \* main: the local variable tol, NoValue while unbound
    dbRisk,     \* users.risk_tolerance of the session's user
    user_in,    \* main: the utterance being processed
    branch,     \* main: the routing branch that handled user_in
    turns,      \* main: utterances read so far in this session
    printed,    \* main: what the last branch printed
    fpc,        \* run_with_failsafe: "idle" | "loop" | "fallback" | "returned" | "raised"
    question,   \* run_with_failsafe: the question argument
    handlers,   \* run_with_failsafe: the handler list (handler names)
    chat,       \* run_with_failsafe: the chat capability, "agent" or "stub"
    hi,         \* run_with_failsafe: handlers consumed by the for loop
    ret,        \* run_with_failsafe: the returned string
    invoked,    \* the handler calls of this run, in order: [name, raised, out, passed]
    fsCalls,    \* run_with_failsafe calls made for the current utterance
    chatLog,    \* the prompts given to chat.invoke in this run
    chatText,   \* the text chat.invoke returned in this run, NoValue if none
    llmCalls,   \* AgentWithMemory: executor invocations for the current utterance
    mem,        \* AgentWithMemory: the conversation memory, <<input, output>> turns
    cache,      \* agent/cache.py: the CSV file at CACHE_PATH, [exists, lines]
    clock,      \* time.time(), counted in hours
    resolves,   \* price resolutions made so far
    last,       \* the latest price resolution: its arguments, source calls and result
    puts,       \* the rows written to the cache file so far, in the order of the writes
    writers,    \* put_cached_price calls in progress: [pc, exists, row] per writer
    readOut,    \* the latest get_cached_price call made on its own: [symbol, date, price]
    fraudIn,    \* simple_fraud_check: the arguments of the call
    fraudOut,   \* simple_fraud_check: the returned (is_suspicious, details), NoValue before
    allocIn,    \* the arguments of the latest tool_portfolio_analysis / risk_fit_label call
    allocOut,   \* what that call computed
    store,      \* the SQLite store: the rows of users, memories, portfolios, counterparties
    storeCall,  \* the latest call on the store: its arguments, the store before it, its result
    vader,      \* _vader, _vader_lock and the analyzers constructed so far
    threads,    \* the _get_vader calls of each thread: [pc, calls, locked, got]
    agentCall,  \* the latest AgentWithMemory.invoke: input, memory before, history given, output
    forgotten   \* the turns the latest 'forget me' left in the conversation memory, -1 before

vars == <<pc, conn, uid, risk_tol, tol, dbRisk, user_in, branch, turns, printed,
          fpc, question, handlers, chat, hi, ret, invoked, fsCalls,
          chatLog, chatText, llmCalls, mem,
          cache, clock, resolves, last, puts, writers, readOut, fraudIn, fraudOut,
          allocIn, allocOut, store, storeCall, vader, threads, agentCall, forgotten>>

\* the state of the request pipeline, and the state of the tools modelled on their own
pipelineVars == <<pc, conn, uid, risk_tol, tol, dbRisk, user_in, branch, turns, printed,
                  fpc, question, handlers, chat, hi, ret, invoked, fsCalls,
                  chatLog, chatText, llmCalls, mem>>
laterVars == <<store, storeCall, vader, threads, agentCall, forgotten>>
moreVars == <<allocIn, allocOut, store, storeCall, vader, threads, agentCall, forgotten>>
deviceVars == <<cache, clock, resolves, last, puts, writers, readOut, fraudIn, fraudOut,
                allocIn, allocOut, store, storeCall, vader, threads>>
toolVars == <<cache, clock, resolves, last, puts, writers, readOut, fraudIn, fraudOut,
              allocIn, allocOut, store, storeCall, vader, threads, agentCall, forgotten>>

mainVars == <<conn, uid, risk_tol, tol, dbRisk, user_in, branch, turns, printed>>
frameVars == <<fpc, question, handlers, chat, hi, ret, invoked, chatLog, chatText>>

NoValue == "<none>"

(***************************************************************************)
(* Bounds of the model.                                                    *)
(***************************************************************************)
MaxHandlers == 2    \* longest handler list given to run_with_failsafe directly
MaxTurns == 2       \* utterances read in one session

(***************************************************************************)
(* Python's str operations and the re primitives the source uses.          *)
(***************************************************************************)
Lowers == "abcdefghijklmnopqrstuvwxyz"
Uppers == "ABCDEFGHIJKLMNOPQRSTUVWXYZ"
Digits == "0123456789"

At(s, i) == IF 1 <= i /\ i <= Len(s) THEN SubSeq(s, i, i) ELSE ""

Chars(s) == {SubSeq(s, i, i) : i \in 1..Len(s)}

LowerChars == Chars(Lowers)
UpperChars == Chars(Uppers)
LetterChars == LowerChars \cup UpperChars
DigitChars == Chars(Digits)
WordChars == LetterChars \cup DigitChars \cup {"_"}
SpaceChars == {" ", "\t", "\n"}

ToLower == [c \in UpperChars |-> At(Lowers, CHOOSE i \in 1..Len(Uppers) : At(Uppers, i) = c)]
ToUpper == [c \in LowerChars |-> At(Uppers, CHOOSE i \in 1..Len(Lowers) : At(Lowers, i) = c)]

LowerChar(c) == IF c \in UpperChars THEN ToLower[c] ELSE c

UpperChar(c) == IF c \in LowerChars THEN ToUpper[c] ELSE c

\* str.lower(), by halves to keep the recursion shallow on long texts
RECURSIVE Lower(_)
Lower(s) ==
    IF Len(s) = 0 THEN ""
    ELSE IF Len(s) = 1 THEN LowerChar(s)
    ELSE Lower(SubSeq(s, 1, Len(s) \div 2)) \o Lower(SubSeq(s, Len(s) \div 2 + 1, Len(s)))

\* str.upper()
RECURSIVE Upper(_)
Upper(s) ==
    IF Len(s) = 0 THEN ""
    ELSE IF Len(s) = 1 THEN UpperChar(s)
    ELSE Upper(SubSeq(s, 1, Len(s) \div 2)) \o Upper(SubSeq(s, Len(s) \div 2 + 1, Len(s)))

\* s[i:i+len(p)] == p
MatchAt(s, i, p) ==
    /\ 1 <= i
    /\ i + Len(p) - 1 <= Len(s)
    /\ SubSeq(s, i, i + Len(p) - 1) = p

\* p in s
Contains(s, p) == \E i \in 1..(Len(s) - Len(p) + 1) : MatchAt(s, i, p)

StartsWith(s, p) == MatchAt(s, 1, p)

\* re's \b between s[i] and s[i+1] (1-based; i = 0 is the start, i = Len(s) the end)
Boundary(s, i) == (At(s, i) \in WordChars) # (At(s, i + 1) \in WordChars)

\* s.strip(cs), s.rstrip(cs)
RECURSIVE StripChars(_, _)
StripChars(s, cs) ==
    IF s = "" THEN ""
    ELSE IF At(s, 1) \in cs THEN StripChars(SubSeq(s, 2, Len(s)), cs)
    ELSE IF At(s, Len(s)) \in cs THEN StripChars(SubSeq(s, 1, Len(s) - 1), cs)
    ELSE s

RECURSIVE RStripChars(_, _)
RStripChars(s, cs) ==
    IF s # "" /\ At(s, Len(s)) \in cs THEN RStripChars(SubSeq(s, 1, Len(s) - 1), cs) ELSE s

\* s.strip()
Strip(s) == StripChars(s, SpaceChars)

\* s.split(sep, 1)[1], for s that contains sep
AfterFirst(s, sep) ==
    LET i == CHOOSE i \in 1..Len(s) :
                 MatchAt(s, i, sep) /\ \A j \in 1..(i - 1) : ~MatchAt(s, j, sep)
    IN  SubSeq(s, i + Len(sep), Len(s))

\* s.split()
RECURSIVE Words(_)
Words(s) ==
    LET w == Strip(s) IN
    IF w = "" THEN <<>>
    ELSE LET n == IF \E i \in 1..Len(w) : At(w, i) \in SpaceChars
                  THEN (CHOOSE i \in 1..Len(w) :
                           At(w, i) \in SpaceChars /\ \A j \in 1..(i - 1) : At(w, j) \notin SpaceChars) - 1
                  ELSE Len(w)
         IN <<SubSeq(w, 1, n)>> \o Words(SubSeq(w, n + 1, Len(w)))

\* sep.join(parts)
RECURSIVE Join(_, _)
Join(parts, sep) ==
    IF parts = <<>> THEN ""
    ELSE IF Len(parts) = 1 THEN parts[1]
    ELSE parts[1] \o sep \o Join(Tail(parts), sep)

(***************************************************************************)
(* Python's re, as far as the source uses it.  A pattern is a tree.        *)
(* Match(r, s, i, g) lists, in the order the backtracking matcher tries    *)
(* them (greedy repetition first, alternatives left to right), the ways r  *)
(* can match after the first i characters of s, each as <<end, groups>>    *)
(* with groups a function from group name to <<start, end>>.  The first    *)
(* element is the match Python reports.                                    *)
(***************************************************************************)
Lit(x) == [op |-> "lit", s |-> x]
Cls(cs) == [op |-> "class", cs |-> cs]
Dot == [op |-> "dot"]
WB == [op |-> "wb"]
Cat(parts) == [op |-> "cat", rs |-> parts]
Alt(parts) == [op |-> "alt", rs |-> parts]
Grp(n, r) == [op |-> "grp", name |-> n, r |-> r]
Rep(r, lo, up) == [op |-> "rep", r |-> r, lo |-> lo, up |-> up]   \* up = -1: no limit
Star(r) == Rep(r, 0, -1)
Plus(r) == Rep(r, 1, -1)
Opt(r) == Rep(r, 0, 1)
WS == Cls(SpaceChars)

RECURSIVE Flatten(_)
Flatten(ss) == IF ss = <<>> THEN <<>> ELSE Head(ss) \o Flatten(Tail(ss))

RECURSIVE Match(_, _, _, _)
Match(r, s, i, g) ==
    CASE r.op = "lit" -> IF MatchAt(s, i + 1, r.s) THEN << <<i + Len(r.s), g>> >> ELSE <<>>
      [] r.op = "class" -> IF At(s, i + 1) \in r.cs THEN << <<i + 1, g>> >> ELSE <<>>
      [] r.op = "dot" -> IF i < Len(s) /\ At(s, i + 1) # "\n" THEN << <<i + 1, g>> >> ELSE <<>>
      [] r.op = "wb" -> IF Boundary(s, i) THEN << <<i, g>> >> ELSE <<>>
      [] r.op = "grp" ->
            LET inner == Match(r.r, s, i, g) IN
            [k \in 1..Len(inner) |->
                <<inner[k][1],
                  [n \in DOMAIN inner[k][2] \cup {r.name} |->
                      IF n = r.name THEN <<i, inner[k][1]>> ELSE inner[k][2][n]]>>]
      [] r.op = "alt" -> Flatten([k \in 1..Len(r.rs) |-> Match(r.rs[k], s, i, g)])
      [] r.op = "cat" ->
            IF r.rs = <<>> THEN << <<i, g>> >>
            ELSE LET first == Match(Head(r.rs), s, i, g) IN
                 Flatten([k \in 1..Len(first) |->
                             Match(Cat(Tail(r.rs)), s, first[k][1], first[k][2])])
      [] r.op = "rep" ->
            LET once == IF r.up = 0 THEN <<>> ELSE Match(r.r, s, i, g)
                less == Rep(r.r, IF r.lo > 0 THEN r.lo - 1 ELSE 0,
                                 IF r.up > 0 THEN r.up - 1 ELSE r.up)
                more == Flatten([k \in 1..Len(once) |->
                            IF once[k][1] > i THEN Match(less, s, once[k][1], once[k][2])
                            ELSE <<>>])
            IN  more \o (IF r.lo = 0 THEN << <<i, g>> >> ELSE <<>>)

\* re.search(r, s) is not None
re_search(r, s) == \E i \in 0..Len(s) : Match(r, s, i, <<>>) # <<>>

\* The leftmost match at or after position from, as <<start, end, groups>>
\* (the match is characters start+1..end), or <<>> if there is none.
RECURSIVE FirstMatch(_, _, _)
FirstMatch(r, s, from) ==
    IF from > Len(s) THEN <<>>
    ELSE LET m == Match(r, s, from, <<>>) IN
         IF m # <<>> THEN <<from, m[1][1], m[1][2]>> ELSE FirstMatch(r, s, from + 1)

\* re.findall / finditer: the successive non-overlapping matches
RECURSIVE FindAll(_, _, _)
FindAll(r, s, from) ==
    LET m == FirstMatch(r, s, from) IN
    IF m = <<>> THEN <<>>
    ELSE <<m>> \o FindAll(r, s, IF m[2] > m[1] THEN m[2] ELSE m[2] + 1)

\* m.group(name) of a match m of s; NoValue for a group that did not take part
Group(s, m, name) ==
    IF name \in DOMAIN m[3] THEN SubSeq(s, m[3][name][1] + 1, m[3][name][2]) ELSE NoValue

(***************************************************************************)
(* agent/compliance.py                                                     *)
(***************************************************************************)
GENERIC_DISCLAIMER ==
    "This content is for informational purposes only and is not financial advice. "
    \o "No offer, solicitation, or recommendation is being made. "
    \o "Past performance does not guarantee future results. "
    \o "For personalized guidance, consult a licensed professional. "
    \o "Data sources may be delayed or inaccurate; verify independently. "
    \o "GDPR simulation: you can request deletion of your stored data with 'forget me'. "
    \o "Recommendations are hypothetical and not personalized advice under SEC rules. "

BANNED_PHRASES ==
    {"guaranteed profit", "surefire", "inside information",
     "front-run", "pump and dump", "tax evasion",
     "insider trading", "day trading strategy", "spoofing",
     "dark edge", "gray edge"}

REFUSAL ==
    "I can't assist with that request (compliance). If you want, I can explain "
    \o "legal, diversified approaches instead."

DISCLAIMER_TAIL ==
    "We avoid favoritism toward individual securities; suggestions are "
    \o "diversified and ETF-first where possible."

\* any(p in lower for p in BANNED_PHRASES)
HasBanned(text) == LET lower == Lower(text) IN \E p \in BANNED_PHRASES : Contains(lower, p)

\* guard_and_disclaim without the test for banned phrases
guard_and_disclaim_nocheck(text, banned_only) ==
    IF banned_only THEN <<TRUE, text>>
    ELSE <<TRUE, text \o "\n\n" \o GENERIC_DISCLAIMER \o DISCLAIMER_TAIL>>

\* guard_and_disclaim(text, banned_only) -> <<ok, text>>
guard_and_disclaim(text, banned_only) ==
    IF HasBanned(text) THEN <<FALSE, REFUSAL>>
    ELSE IF banned_only THEN <<TRUE, text>>
    ELSE <<TRUE, text \o "\n\n" \o GENERIC_DISCLAIMER \o DISCLAIMER_TAIL>>

(***************************************************************************)
(* agent/failsafe.py: the quality gate                                     *)
(***************************************************************************)
FAILSAFE_STRICT == TRUE     \* os.getenv("FAILSAFE_STRICT", "1"): the default

\* _BAD_PATTERNS
BAD_PATTERNS ==
    << Cat(<<WB, Lit("nan"), WB>>),
       Lit("could not parse"),
       Cat(<<Lit("invalid"), Plus(Lit(" ")), Lit("json")>>),
       Lit("unavailable"),
       Lit("no price data found"),
       Cat(<<Lit("yfinance"), Star(Dot), Lit("failed")>>),
       Lit("request timed out"),
       Lit("error:"),
       Lit("exception") >>

MARKER == "expected annual return:"

\* C3's mutant: the empty-output test is dropped and the denylist loop is skipped
looks_broken_nogate(output) ==
    LET text == Lower(output) IN Contains(text, MARKER) /\ Contains(text, "nan")

\* C4's mutant: the exemption forgets the "nan" test
looks_broken_nonan(output) ==
    IF output = "" THEN TRUE
    ELSE LET text == Lower(output) IN
         IF Contains(text, MARKER) THEN FALSE
         ELSE \E k \in 1..Len(BAD_PATTERNS) : re_search(BAD_PATTERNS[k], text)

looks_broken(output) ==
    IF ~FAILSAFE_STRICT THEN FALSE
    ELSE IF output = "" THEN TRUE
    ELSE LET text == Lower(output) IN
         IF Contains(text, MARKER) /\ ~Contains(text, "nan") THEN FALSE
         ELSE IF \E k \in 1..Len(BAD_PATTERNS) : re_search(BAD_PATTERNS[k], text) THEN TRUE
         ELSE IF Contains(text, MARKER) /\ Contains(text, "nan") THEN TRUE
         ELSE FALSE

(***************************************************************************)
(* agent/agent.py: the chat capability                                     *)
(***************************************************************************)
AGENT_APOLOGY ==
    "Sorry - something went wrong while processing that. "
    \o "Try rephrasing or a simpler request."

RUN_APOLOGY == "Sorry - something went wrong while processing that."

\* Exception classes a callee may raise; all derive from Exception.
ExceptionClasses == {"ValueError", "RuntimeError"}

\* What self.exec.invoke (the language-model executor) may do.
LLMAnswers ==
    {"Diversify across low-cost ETFs.",
     "Some traders use spoofing to move prices.",
     "Which ticker do you mean?"}

LLMOutcomes ==
    {[raised |-> FALSE, value |-> a] : a \in LLMAnswers}
        \cup {[raised |-> TRUE, value |-> e] : e \in ExceptionClasses}

\* AgentWithMemory.invoke with a blocked input saved to the memory as a turn
AgentInvoke_saved(user_msg, llm) ==
    LET g == guard_and_disclaim(user_msg, TRUE) IN
    IF ~g[1]
    THEN [output |-> g[2], called |-> TRUE, turn |-> <<user_msg, g[2]>>]
    ELSE LET ai_msg == IF llm.raised THEN AGENT_APOLOGY ELSE llm.value IN
         [output |-> guard_and_disclaim(ai_msg, FALSE)[2],
          called |-> TRUE,
          turn |-> <<user_msg, ai_msg>>]

\* AgentWithMemory.invoke(inputs), given what the executor does if it is called:
\* the returned dict's "output", whether the executor was called, the turn saved.
AgentInvoke(user_msg, llm) ==
    LET g == guard_and_disclaim(user_msg, TRUE) IN
    IF ~g[1]
    THEN [output |-> g[2], called |-> FALSE, turn |-> <<>>]
    ELSE LET ai_msg == IF llm.raised THEN AGENT_APOLOGY ELSE llm.value IN
         [output |-> guard_and_disclaim(ai_msg, FALSE)[2],
          called |-> TRUE,
          turn |-> <<user_msg, ai_msg>>]

\* What the invoke of a chat capability other than AgentWithMemory may do:
\* a dict with "output", a dict without it, a non-dict value, or an exception.
StubOutcomes ==
    {[kind |-> "dict", value |-> "stub answer"],
     [kind |-> "nokey", value |-> ""],
     [kind |-> "other", value |-> "plain result"]}
        \cup {[kind |-> "raise", value |-> e] : e \in ExceptionClasses}

\* C6's mutant: run_and_comply catches only ValueError
RunAndComplyCatches_narrow(e) == e = "ValueError"

\* run_and_comply: "except Exception"
RunAndComplyCatches(e) == e \in ExceptionClasses

\* C2's mutant: run_and_comply always answers with its apology
RunAndComplyResult_apology(r) == RUN_APOLOGY

\* run_and_comply's result for what executor.invoke did:
\* result.get("output", "") for a dict, str(result) otherwise
RunAndComplyResult(r) ==
    CASE r.kind = "dict" -> r.value
      [] r.kind = "nokey" -> ""
      [] r.kind = "other" -> r.value
      [] r.kind = "raise" -> RUN_APOLOGY

(***************************************************************************)
(* jagent.py: the helpers of the router                                    *)
(***************************************************************************)
TickerChars == LetterChars \cup DigitChars \cup {".", "-"}

\* PRICE_TICKER_REGEX (re.I: matched on the lowercased text)
PRICE_TICKER_REGEX ==
    Alt(<< Cat(<<Grp("t1", Cat(<<Cls(LetterChars), Rep(Cls(TickerChars), 0, 9)>>)),
                 Opt(Lit("'s")), Plus(WS),
                 Alt(<<Lit("price"), Lit("quote")>>), WB>>),
           Cat(<<WB,
                 Opt(Cat(<<Lit("what"), Alt(<<Lit("'s"), Lit(" is")>>), Plus(WS)>>)),
                 Opt(Cat(<<Lit("the"), Plus(WS)>>)),
                 Alt(<<Lit("price"), Lit("quote")>>), Plus(WS),
                 Opt(Alt(<<Lit("of"), Lit("for")>>)), Star(WS),
                 Grp("t2", Cat(<<Cls(LetterChars), Rep(Cls(TickerChars), 0, 9)>>)),
                 WB>>) >>)

\* _alloc_only: the pattern of re.findall
ALLOC_PAIR ==
    Cat(<<Grp("pct", Cat(<<Plus(Cls(DigitChars)),
                           Opt(Cat(<<Lit("."), Plus(Cls(DigitChars))>>))>>)),
          Star(WS), Lit("%"), Star(WS),
          Grp("sym", Cat(<<Cls(LetterChars),
                           Plus(Cls(LetterChars \cup DigitChars \cup {".", "-", "_"}))>>))>>)

STOP == {"IN", "OF", "TO", "INTO", "ON", "AT"}

ALIAS == [BONDS |-> "BND", BOND |-> "BND", FIXEDINCOME |-> "BND", APPL |-> "AAPL"]

\* _alloc_only(text): "NN% SYM, ..." of the pairs found, "" if there is none
RECURSIVE alloc_cleaned(_, _)
alloc_cleaned(text, pairs) ==
    IF pairs = <<>> THEN <<>>
    ELSE LET pct == Group(text, Head(pairs), "pct")
             s == RStripChars(Upper(Strip(Group(text, Head(pairs), "sym"))),
                              {".", ",", ";", ":", ")"})
         IN  IF s \in STOP THEN alloc_cleaned(text, Tail(pairs))
             ELSE <<pct \o "% " \o (IF s \in DOMAIN ALIAS THEN ALIAS[s] ELSE s)>>
                      \o alloc_cleaned(text, Tail(pairs))

alloc_only(text) == Join(alloc_cleaned(text, FindAll(ALLOC_PAIR, text, 0)), ", ")

\* SYNONYMS, in dict order: <<pattern, canonical tolerance>>
SYNONYMS ==
    << <<Cat(<<WB, Alt(<<Lit("high risk"), Lit("risk-on"), Lit("risk on"), Lit(""),
                         Cat(<<Lit("risk"), Opt(Cls({"-"} \cup SpaceChars)), Lit("on")>>),
                         Lit("very aggressive"), Lit("speculative"), Lit("max risk")>>), WB>>),
         "aggressive">>,
       <<Cat(<<WB, Alt(<<Lit("balanced"), Lit("medium risk"), Lit("average risk"),
                         Lit("moderately")>>), WB>>),
         "moderate">>,
       <<Cat(<<WB, Alt(<<Lit("low risk"),
                         Cat(<<Lit("risk"), Opt(Cls({"-"} \cup SpaceChars)), Lit("off")>>),
                         Lit("risk-averse"), Lit("risk averse"), Lit("defensive"),
                         Lit("capital preservation")>>), WB>>),
         "conservative">> >>

\* _infer_risk_freeform: the cue pattern
RISK_CUE ==
    Cat(<<WB,
          Alt(<<Lit("i am"), Lit("i'm"),
                Cat(<<Lit("my"), Plus(WS), Lit("risk"),
                      Opt(Cat(<<Star(WS),
                                Alt(<<Cat(<<Lit("toler"), Cls({"a", "e"}), Lit("nce")>>),
                                      Lit("preference"), Lit("profile"), Lit("level"),
                                      Lit("appetite")>>)>>)),
                      Plus(WS), Lit("is")>>),
                Cat(<<Lit("assume"), Plus(WS), Alt(<<Lit("i am"), Lit("i'm")>>)>>),
                Lit("consider me"), Lit("treat me as"),
                Cat(<<Lit("set"), Plus(WS), Star(Dot), Lit("risk"), Star(Dot),
                      Alt(<<Lit("to"), Lit("as")>>)>>)>>),
          WB>>)

\* _infer_risk_freeform: the explicit tolerance word
RISK_WORD ==
    Cat(<<WB, Grp("tol", Alt(<<Lit("conservative"), Lit("moderate"), Lit("aggressive")>>)), WB>>)

\* _infer_risk_freeform(text): the tolerance, NoValue for None
infer_risk_freeform(text) ==
    LET t == Lower(text) IN
    IF ~re_search(RISK_CUE, t) THEN NoValue
    ELSE IF re_search(RISK_WORD, t) THEN Group(t, FirstMatch(RISK_WORD, t, 0), "tol")
    ELSE IF \E k \in 1..Len(SYNONYMS) : re_search(SYNONYMS[k][1], t)
         THEN SYNONYMS[CHOOSE k \in 1..Len(SYNONYMS) :
                           /\ re_search(SYNONYMS[k][1], t)
                           /\ \A j \in 1..(k - 1) : ~re_search(SYNONYMS[j][1], t)][2]
    ELSE NoValue

HELP == "JAgent - commands & input formats"

HELP_TOPICS ==
    {"price", "analyze", "portfolio", "risk", "fraud", "payee", "memory", "sentiment",
     "news", "exit", "safety"}

PAYEE_LIST == {"payee list", "counterparty list", "payee/counterparty list"}

(***************************************************************************)
(* jagent.py: main(), classification of an utterance                      *)
(***************************************************************************)
\* The lines a user may type.
Utterances ==
    {"", "exit", "help", "help risk", "help i am conservative",
     "I'm conservative", "sentiment I am happy", "set risk to moderate",
     "set risk aggressive", "set risk yolo", "set risk", "forget me",
     "price NVDA", "price 50% NVDA",
     "analyze portfolio 60% AAPL, 40% bonds", "Analyze Portfolio 50% NVDA",
     "analyze portfolio please", "analyze portfolio AAPL: 60, BND: 40",
     "analyze portfolio {\"AAPL\": 60, \"BND\": 40}", "put 50% F and 50% T",
     "fraud {\"amount\": 6000, \"hour\": 0}", "FRAUD {}",
     "sentiment spoofing paid off", " sentiment great quarter ",
     "payee add Soho House", "payee add \"\"", "news NVDA", "news pump and dump",
     "payee list", "put 50% NVDA and 50% TSLA",
     "what is the price of AAPL", "what is an ETF", "how does spoofing work"}

\* console.input(...).strip()
Inputs == {Strip(u) : u \in Utterances}

\* C8's mutant: the prefixed tool commands are tested before the risk inference
Route_toolsFirst(u) ==
    LET low == Strip(Lower(u)) IN
    IF low \in {"exit", "quit"} THEN "exit"
    ELSE IF low = "help" THEN "help"
    ELSE IF StartsWith(low, "help ") THEN "help_topic"
    ELSE IF StartsWith(low, "price ") THEN "price"
    ELSE IF StartsWith(low, "analyze portfolio") THEN "analyze"
    ELSE IF StartsWith(low, "fraud ") THEN "fraud"
    ELSE IF StartsWith(low, "sentiment ") THEN "sentiment"
    ELSE IF StartsWith(low, "payee add ") THEN "payee_add"
    ELSE IF StartsWith(low, "counterparty add ") THEN "payee_add"
    ELSE IF StartsWith(low, "news ") THEN "news"
    ELSE IF low \in PAYEE_LIST THEN "payee_list"
    ELSE IF infer_risk_freeform(u) # NoValue THEN "risk"
    ELSE IF StartsWith(low, "set risk") THEN "set_risk"
    ELSE IF low = "forget me" THEN "forget"
    ELSE IF alloc_only(u) # "" THEN "implicit_alloc"
    ELSE IF re_search(PRICE_TICKER_REGEX, Lower(u)) THEN "implicit_price"
    ELSE "freeform"

\* The if-chain of the loop body: the branch that handles the stripped,
\* non-empty utterance u.
Route(u) ==
    LET low == Strip(Lower(u)) IN
    IF low \in {"exit", "quit"} THEN "exit"
    ELSE IF low = "help" THEN "help"
    ELSE IF StartsWith(low, "help ") THEN "help_topic"
    ELSE IF infer_risk_freeform(u) # NoValue THEN "risk"
    ELSE IF StartsWith(low, "set risk") THEN "set_risk"
    ELSE IF low = "forget me" THEN "forget"
    ELSE IF StartsWith(low, "price ") THEN "price"
    ELSE IF StartsWith(low, "analyze portfolio") THEN "analyze"
    ELSE IF StartsWith(low, "fraud ") THEN "fraud"
    ELSE IF StartsWith(low, "sentiment ") THEN "sentiment"
    ELSE IF StartsWith(low, "payee add ") THEN "payee_add"
    ELSE IF StartsWith(low, "counterparty add ") THEN "payee_add"
    ELSE IF StartsWith(low, "news ") THEN "news"
    ELSE IF low \in PAYEE_LIST THEN "payee_list"
    ELSE IF alloc_only(u) # "" THEN "implicit_alloc"
    ELSE IF re_search(PRICE_TICKER_REGEX, Lower(u)) THEN "implicit_price"
    ELSE "freeform"

\* Route, computed once per input
RouteOf == [u \in Inputs |-> Route(u)]

\* the news branch's question argument
NewsQuestion(u) == "Give me recent headlines for: " \o Strip(AfterFirst(u, " "))

(***************************************************************************)
(* Numbers as text: str(n), int(s) / float(s) for the decimal numerals the *)
(* model uses.  Prices are whole currency units.                           *)
(***************************************************************************)
RECURSIVE IntToStr(_)
IntToStr(n) ==
    IF n < 10 THEN At(Digits, n + 1) ELSE IntToStr(n \div 10) \o At(Digits, (n % 10) + 1)

IsNumber(s) == s # "" /\ \A i \in 1..Len(s) : At(s, i) \in DigitChars

RECURSIVE StrToInt(_)
StrToInt(s) ==
    IF Len(s) = 1 THEN CHOOSE d \in 0..9 : At(Digits, d + 1) = s
    ELSE 10 * StrToInt(SubSeq(s, 1, Len(s) - 1)) + StrToInt(SubSeq(s, Len(s), Len(s)))

\* Python's None for an Optional value; a present value v is <<v>>
None == <<>>

(***************************************************************************)
(* agent/cache.py: the CSV price cache.  The file is [exists, lines], a    *)
(* line being the tuple of its comma-separated fields.  Time is counted in *)
(* hours, so CACHE_TTL_S is CACHE_TTL_HOURS.                               *)
(***************************************************************************)
CACHE_TTL_HOURS == 1

NoFile == [exists |-> FALSE, lines |-> <<>>]

CSV_HEADER == <<"symbol", "date", "price", "ts">>

\* csv.DictReader: row.get(name) under the field names of the file's first
\* line; NoValue if the row has no such field
Field(names, row, name) ==
    LET at == {i \in 1..Len(names) : i <= Len(row) /\ names[i] = name} IN
    IF at = {} THEN NoValue ELSE row[CHOOSE i \in at : \A j \in at : j <= i]

\* C16's mutant: the scan stops at the first matching row
KeepLast_first(hits) == CHOOSE i \in hits : \A j \in hits : i <= j

\* "latest = row  # keep the last one": of the matching rows, the last in
\* file order
KeepLast(hits) == CHOOSE i \in hits : \A j \in hits : j <= i

\* get_cached_price with a row counted as expired once its age reaches the TTL
get_cached_price_ge(file, symbol, date, now, readable) ==
    IF ~file.exists THEN None
    ELSE IF ~readable THEN None
    ELSE LET names == IF file.lines = <<>> THEN <<>> ELSE file.lines[1]
             hits == {i \in 2..Len(file.lines) :
                         /\ LET sym == Field(names, file.lines[i], "symbol") IN
                            Upper(IF sym = NoValue THEN "" ELSE sym) = Upper(symbol)
                         /\ Field(names, file.lines[i], "date") = date}
         IN  IF hits = {} THEN None
             ELSE LET latest == file.lines[KeepLast(hits)]
                      ts == Field(names, latest, "ts")
                      price == Field(names, latest, "price")
                  IN  IF ~IsNumber(ts) THEN None
                      ELSE IF now - StrToInt(ts) >= CACHE_TTL_HOURS THEN None
                      ELSE IF ~IsNumber(price) THEN None
                      ELSE <<StrToInt(price)>>

\* get_cached_price(symbol, date) at time now; readable = FALSE: opening or
\* reading the file raises
get_cached_price(file, symbol, date, now, readable) ==
    IF ~file.exists THEN None
    ELSE IF ~readable THEN None
    ELSE LET names == IF file.lines = <<>> THEN <<>> ELSE file.lines[1]
             hits == {i \in 2..Len(file.lines) :
                         /\ LET sym == Field(names, file.lines[i], "symbol") IN
                            Upper(IF sym = NoValue THEN "" ELSE sym) = Upper(symbol)
                         /\ Field(names, file.lines[i], "date") = date}
         IN  IF hits = {} THEN None
             ELSE LET latest == file.lines[KeepLast(hits)]
                      ts == Field(names, latest, "ts")
                      price == Field(names, latest, "price")
                  IN  IF ~IsNumber(ts) THEN None
                      ELSE IF now - StrToInt(ts) > CACHE_TTL_HOURS THEN None
                      ELSE IF ~IsNumber(price) THEN None
                      ELSE <<StrToInt(price)>>

\* C13's mutant: rows are stamped with the epoch instead of the time of
\* writing
CacheRow_epoch(symbol, date, price, now) == <<Upper(symbol), date, IntToStr(price), IntToStr(0)>>

\* the row w.writerow writes
CacheRow(symbol, date, price, now) == <<Upper(symbol), date, IntToStr(price), IntToStr(now)>>

\* what closing the file appends: the header if the file did not exist when
\* os.path.exists was called, then the row
Appended(file, existed, row) ==
    [exists |-> TRUE, lines |-> file.lines \o (IF existed THEN <<>> ELSE <<CSV_HEADER>>) \o <<row>>]

\* put_cached_price(symbol, date, price) at time now, run without interruption;
\* writable = FALSE: creating or opening the file raises, and the exception is
\* swallowed
put_cached_price(file, symbol, date, price, now, writable) ==
    IF writable THEN Appended(file, file.exists, CacheRow(symbol, date, price, now)) ELSE file

(***************************************************************************)
(* agent/tools.py: the price resolution chain                              *)
(***************************************************************************)
\* map_symbol
map_symbol(sym) == LET s == Upper(Strip(sym)) IN IF s = "BONDS" THEN "BND" ELSE s

\* _today_str(): the calendar date at time now
today_str(now) == "day" \o IntToStr(now \div 24)

\* the price each source quotes when it has one
Quote == [primary |-> 101, secondary_intraday |-> 102, secondary_daily |-> 100]

\* What one call of a provider may do: return a price, return no price
\* (no quote in the payload, an empty frame), or raise.
ProviderOutcomes(p) ==
    {[kind |-> "price", price |-> p], [kind |-> "none", price |-> 0],
     [kind |-> "raise", price |-> 0]}

\* The surroundings of one resolution: whether the cache file can be read and
\* written, whether ALPHAVANTAGE_API_KEY is set, and what each provider does
\* if it is called.
Environments ==
    [readable : BOOLEAN, writable : BOOLEAN, api_key : BOOLEAN,
     av : ProviderOutcomes(Quote.primary), intraday : ProviderOutcomes(Quote.secondary_intraday),
     daily : ProviderOutcomes(Quote.secondary_daily)]

\* one query of a source, and whether it yielded a price
Query(source, got) == [source |-> source, got |-> got]

\* A source that is not queried has no outcome, and a write that is not
\* attempted cannot fail: of the environments that differ only there, the one
\* with "none" and with a writable cache stands for all.
Told(fn, hit, e) ==
    LET primary == ~hit /\ e.api_key
        intraday == ~hit /\ ~(primary /\ e.av.kind = "price")
        daily == intraday /\ fn = "get_latest_price" /\ e.intraday.kind = "none"
        write == \/ primary /\ e.av.kind = "price"
                 \/ intraday /\ e.intraday.kind = "price"
                 \/ daily /\ e.daily.kind = "price"
    IN  /\ hit => ~e.api_key
        /\ ~primary => e.av.kind = "none"
        /\ ~intraday => e.intraday.kind = "none"
        /\ ~daily => e.daily.kind = "none"
        /\ ~write => e.writable

\* the environments of a resolution by fn whose cache lookup hit or missed
EnvironmentsOf ==
    [fn \in {"get_latest_price", "get_realtime_price"}, hit \in BOOLEAN, readable \in BOOLEAN |->
        {e \in Environments : e.readable = readable /\ Told(fn, hit, e)}]

\* alpha_vantage_price
alpha_vantage_price(out) ==
    CASE out.kind = "price" -> [price |-> <<out.price>>, src |-> "alpha_vantage"]
      [] out.kind = "none" -> [price |-> None, src |-> "alpha_vantage:no_price"]
      [] out.kind = "raise" -> [price |-> None, src |-> "alpha_vantage:error"]

\* _latest_price_yf with a daily-close query that raised made a second time
latest_price_yf_retry(intraday, daily) ==
    CASE intraday.kind = "price" ->
            [price |-> <<intraday.price>>, src |-> "yfinance (intraday)",
             calls |-> <<Query("secondary_intraday", TRUE)>>]
      [] intraday.kind = "raise" ->
            [price |-> None, src |-> "yfinance:error",
             calls |-> <<Query("secondary_intraday", FALSE)>>]
      [] intraday.kind = "none" /\ daily.kind = "price" ->
            [price |-> <<daily.price>>, src |-> "yfinance:last_close",
             calls |-> <<Query("secondary_intraday", FALSE), Query("secondary_daily", TRUE)>>]
      [] intraday.kind = "none" /\ daily.kind = "none" ->
            [price |-> None, src |-> "yfinance:unavailable",
             calls |-> <<Query("secondary_intraday", FALSE), Query("secondary_daily", FALSE)>>]
      [] intraday.kind = "none" /\ daily.kind = "raise" ->
            [price |-> None, src |-> "yfinance:error",
             calls |-> <<Query("secondary_intraday", FALSE), Query("secondary_daily", FALSE),
                         Query("secondary_daily", FALSE)>>]

\* _latest_price_yf, with the queries it made
latest_price_yf(intraday, daily) ==
    CASE intraday.kind = "price" ->
            [price |-> <<intraday.price>>, src |-> "yfinance (intraday)",
             calls |-> <<Query("secondary_intraday", TRUE)>>]
      [] intraday.kind = "raise" ->
            [price |-> None, src |-> "yfinance:error",
             calls |-> <<Query("secondary_intraday", FALSE)>>]
      [] intraday.kind = "none" /\ daily.kind = "price" ->
            [price |-> <<daily.price>>, src |-> "yfinance:last_close",
             calls |-> <<Query("secondary_intraday", FALSE), Query("secondary_daily", TRUE)>>]
      [] intraday.kind = "none" /\ daily.kind = "none" ->
            [price |-> None, src |-> "yfinance:unavailable",
             calls |-> <<Query("secondary_intraday", FALSE), Query("secondary_daily", FALSE)>>]
      [] intraday.kind = "none" /\ daily.kind = "raise" ->
            [price |-> None, src |-> "yfinance:error",
             calls |-> <<Query("secondary_intraday", FALSE), Query("secondary_daily", FALSE)>>]

\* the yfinance block of get_realtime_price: the intraday query only
realtime_yf(intraday) ==
    IF intraday.kind = "price"
    THEN [price |-> <<intraday.price>>, src |-> "yfinance (intraday)",
          calls |-> <<Query("secondary_intraday", TRUE)>>]
    ELSE [price |-> None, src |-> "unavailable",
          calls |-> <<Query("secondary_intraday", FALSE)>>]

\* C14's mutant: a failed write-back loses the price
WriteBack_lost(found, written, writable) ==
    [price |-> IF writable THEN found.price ELSE None,
     src |-> IF writable THEN found.src ELSE "cache:error", calls |-> found.calls,
     file |-> written[found.price[1], writable],
     put |-> IF writable THEN "ok" ELSE "failed"]

\* "try: put_cached_price(sy, today, p) except Exception: ..." and the return
\* of the pair found; written[p, w] is the file put_cached_price leaves
WriteBack(found, written, writable) ==
    [price |-> found.price, src |-> found.src, calls |-> found.calls,
     file |-> written[found.price[1], writable],
     put |-> IF writable THEN "ok" ELSE "failed"]

\* C11's mutant: a cache hit does not end the chain
AfterCache_always(cached) == TRUE

\* the chain goes on to the providers only when the cache gave no price
AfterCache(cached) == cached = None

\* The body of get_latest_price and get_realtime_price after the cache lookup
\* returned cached: the returned pair, the queries made in order, the cache
\* file afterwards and what became of the write-back ("none", "ok", "failed").
ChainFrom(fn, file, cached, written, env) ==
    LET av == alpha_vantage_price(env.av)
        yf == IF fn = "get_latest_price" THEN latest_price_yf(env.intraday, env.daily)
              ELSE realtime_yf(env.intraday)
        first == <<Query("cache", cached # None)>>
                     \o (IF env.api_key THEN <<Query("primary", av.price # None)>> ELSE <<>>)
        found == IF env.api_key /\ av.price # None
                 THEN [price |-> av.price, src |-> av.src, calls |-> first]
                 ELSE [price |-> yf.price, src |-> yf.src, calls |-> first \o yf.calls]
    IN  IF ~AfterCache(cached)
        THEN [price |-> cached,
              src |-> IF fn = "get_latest_price" THEN "cache:today" ELSE "cache(csv)",
              calls |-> <<Query("cache", TRUE)>>, file |-> file, put |-> "none"]
        ELSE IF found.price = None
        THEN [price |-> None, src |-> found.src, calls |-> found.calls,
              file |-> file, put |-> "none"]
        ELSE WriteBack(found, written, env.writable)

\* the prices the providers quote
QuotePrices == {Quote[k] : k \in DOMAIN Quote}

\* the cache file after put_cached_price(sy, today, p), for every p and for a
\* write that works (TRUE) and one that fails (FALSE)
Written(file, sy, today, now) ==
    [p \in QuotePrices, w \in BOOLEAN |-> put_cached_price(file, sy, today, p, now, w)]

\* get_latest_price(symbol) and get_realtime_price(symbol) at time now in the
\* surroundings env
Chain(fn, file, symbol, now, env) ==
    LET sy == map_symbol(symbol)
        today == today_str(now)
    IN  ChainFrom(fn, file, get_cached_price(file, sy, today, now, env.readable),
                  Written(file, sy, today, now), env)

\* the pairs get_latest_price can return
LatestPricePairs ==
    {[price |-> r.price, src |-> r.src] :
        r \in {Chain("get_latest_price", f, "NVDA", 0, env) :
                  f \in {NoFile, Appended(NoFile, FALSE, CacheRow("NVDA", today_str(0), 99, 0))},
                  env \in Environments}}

\* tool_stock_query's text for the pair get_latest_price returned
StockQueryText(sym, r) ==
    IF r.price = None THEN "Could not fetch a price for " \o sym \o ".\n[source: " \o r.src \o "]"
    ELSE sym \o " ~= " \o IntToStr(r.price[1]) \o ".00 (asof: " \o today_str(0) \o ")\n[source: "
             \o r.src \o "]"

\* the store and the sentiment analyzer at rest
LaterIdle ==
    /\ store = [users |-> <<>>]
    /\ storeCall = [seq |-> 0]
    /\ vader = [made |-> 0]
    /\ threads = <<>>
    /\ agentCall = [input |-> NoValue]
    /\ forgotten = -1

\* the allocation parser, the store and the sentiment analyzer at rest
MoreIdle ==
    /\ allocIn = [kind |-> NoValue]
    /\ allocOut = [kind |-> NoValue]
    /\ LaterIdle

\* Nothing of the price cache, the price chain or the fraud screen is in
\* progress: the state of those parts in runs that do not exercise them.
ToolsIdle ==
    /\ cache = NoFile
    /\ clock = 0
    /\ resolves = 0
    /\ last = [fn |-> NoValue]
    /\ puts = <<>>
    /\ writers = <<>>
    /\ readOut = [symbol |-> NoValue]
    /\ fraudIn = [via |-> NoValue]
    /\ fraudOut = [via |-> NoValue]
    /\ MoreIdle

(***************************************************************************)
(* agent/failsafe.py: run_with_failsafe                                    *)
(***************************************************************************)
FINAL_SUFFIX == "I liked your questions very much. What else can I help with?"

\* What a handler may do when called: raise, or return one of these texts.
ToolOutputs ==
    {"",
     "NVDA = 101.50 (asof: 2025-01-02)\n[source: cache:today]",
     "Could not fetch a price for NVDA.\n[source: yfinance:unavailable]",
     "Sentiment: positive (compound=+0.600) - source: VADER.",
     "Expected annual return: 8.00%\nhistory source unavailable, exception noted",
     "Expected Annual Return: nan%\nAnnualized volatility: nan%",
     "Expected annual return: 5.00%\nfinance sector",
     "Financial summary ready",
     "ERROR: request failed"}

HandlerOutcomes ==
    {[raised |-> FALSE, value |-> o] : o \in ToolOutputs}
        \cup {[raised |-> TRUE, value |-> e] : e \in ExceptionClasses}

\* The fraud branch's handler _call passes the tool's text through
\* guard_and_disclaim; the other handlers return the tool's text.
HandlerOutput(h, raw) ==
    IF h = "tool_fraud_check" THEN guard_and_disclaim(raw, FALSE)[2] ELSE raw

\* What the handler of each tool branch of the router may do.
ToolOutcomes ==
    [tool_stock_query |->
        {[raised |-> FALSE, value |-> StockQueryText("NVDA", r)] : r \in LatestPricePairs}
            \cup {[raised |-> FALSE, value |-> "Please provide a ticker symbol, e.g., 'price NVDA'."],
                  [raised |-> FALSE, value |-> "Sorry, price lookup failed.\n[source: StockQuery exception]"]},
     tool_portfolio_analysis |->
        {[raised |-> FALSE, value |-> "Expected annual return: 5.00%\nfinance sector"],
         [raised |-> FALSE, value |-> "Expected Annual Return: nan%\nAnnualized volatility: nan%"],
         [raised |-> TRUE, value |-> "ValueError"]},
     tool_fraud_check |->
        {[raised |-> FALSE, value |-> "Suspicious: True. Details: large-amount"],
         [raised |-> FALSE, value |-> "Invalid JSON transaction. Expect keys: amount, counterparty, hour."],
         [raised |-> TRUE, value |-> "ValueError"]},
     tool_sentiment |->
        {[raised |-> FALSE, value |-> "Sentiment: positive (compound=+0.600) - source: VADER."]},
     tool_news_headlines |->
        {[raised |-> FALSE, value |-> "News (source: Finnhub)\n- Chips rally - Wire\n  http://x\nsource: finnhub"],
         [raised |-> FALSE, value |-> "News is not configured. Set FINNHUB_API_KEY in your environment to enable Finnhub company/general news."]}]

\* what calling handler h may do
HandlerOutcomesOf(h) == IF h \in DOMAIN ToolOutcomes THEN ToolOutcomes[h] ELSE HandlerOutcomes

\* Every text the quality gate can be given, and the gate's verdict on each
\* (looks_broken, computed once per text).
GateInputs ==
    ToolOutputs
        \cup {HandlerOutput(h, r.value) :
                  h \in DOMAIN ToolOutcomes, r \in {x \in UNION {ToolOutcomes[k] : k \in DOMAIN ToolOutcomes} : ~x.raised}}

Broken == [o \in GateInputs |-> looks_broken(o)]

\* C5's mutant: only the quality gate's RuntimeError is caught
HandlerCatches_narrow(e) == e = "RuntimeError"

\* run_with_failsafe: "except Exception as e" around the handler call
HandlerCatches(e) == e \in ExceptionClasses

\* C7's mutant: the executor returns format_final(out_str)
SuccessValue_suffixed(out_str) == out_str \o "\n\n" \o FINAL_SUFFIX

\* "return out_str"
SuccessValue(out_str) == out_str

\* C1's mutant: a failed handler is tried again instead of moving on
NextHandler_retry(i) == i

\* the for loop's step to the next handler
NextHandler(i) == i + 1

\* The questions of the direct calls of run_with_failsafe.
Questions == {"what is an ETF", "how does spoofing work"}

\* Every prompt the chat capability can be given, and AgentWithMemory.invoke's
\* answer to it for each thing the executor may do (AgentInvoke, computed once).
Prompts ==
    Questions \cup Inputs \cup {NewsQuestion(u) : u \in {v \in Inputs : Contains(v, " ")}}

Agent == [q \in Prompts |-> [llm \in LLMOutcomes |-> AgentInvoke(q, llm)]]

\* One iteration of "for h in handlers": h() is called; an exception, or an
\* output the quality gate flags, moves on to the next handler; a good
\* output is returned.
InvokeHandler ==
    /\ fpc = "loop"
    /\ hi < Len(handlers)
    /\ \E r \in HandlerOutcomesOf(handlers[hi + 1]) :
        LET h == handlers[hi + 1]
            out_str == IF r.raised THEN NoValue ELSE HandlerOutput(h, r.value)
            failed == r.raised \/ Broken[out_str]
        IN  /\ invoked' = Append(invoked, [name |-> h, raised |-> r.raised,
                                           out |-> out_str, passed |-> ~failed])
            /\ IF r.raised /\ ~HandlerCatches(r.value)
               THEN /\ fpc' = "raised"
                    /\ UNCHANGED <<hi, ret>>
               ELSE IF failed
               THEN /\ hi' = NextHandler(hi)
                    /\ UNCHANGED <<fpc, ret>>
               ELSE /\ fpc' = "returned"
                    /\ ret' = SuccessValue(out_str)
                    /\ UNCHANGED hi
    /\ UNCHANGED <<pc, mainVars, question, handlers, chat, fsCalls, chatLog, chatText,
                   llmCalls, mem>>
    /\ UNCHANGED toolVars

\* the record of one AgentWithMemory.invoke: the input, the memory before the
\* call, whether the executor was called, the chat_history it was given, what
\* it did and the output returned
Invoked(input, before, llm, a) ==
    [input |-> input, before |-> before, called |-> a.called,
     hist |-> IF a.called THEN before ELSE <<>>, llm |-> llm, output |-> a.output]

\* After the loop: "return run_and_comply(chat, question)".
Fallback ==
    /\ fpc = "loop"
    /\ hi >= Len(handlers)
    /\ chatLog' = Append(chatLog, question)
    /\ IF chat = "agent"
       THEN \E llm \in LLMOutcomes :
            LET a == Agent[question][llm] IN
            /\ llmCalls' = llmCalls + (IF a.called THEN 1 ELSE 0)
            /\ mem' = IF a.called THEN Append(mem, a.turn) ELSE mem
            /\ chatText' = a.output
            /\ agentCall' = Invoked(question, mem, llm, a)
            /\ ret' = RunAndComplyResult([kind |-> "dict", value |-> a.output])
            /\ fpc' = "returned"
       ELSE \E r \in StubOutcomes :
            /\ UNCHANGED <<llmCalls, mem, agentCall>>
            /\ chatText' = IF r.kind \in {"dict", "other"} THEN r.value ELSE NoValue
            /\ IF r.kind = "raise" /\ ~RunAndComplyCatches(r.value)
               THEN fpc' = "raised" /\ UNCHANGED ret
               ELSE fpc' = "returned" /\ ret' = RunAndComplyResult(r)
    /\ UNCHANGED <<pc, mainVars, question, handlers, chat, hi, invoked, fsCalls, forgotten>>
    /\ UNCHANGED deviceVars

(***************************************************************************)
(* run_with_failsafe called directly, with any handler list.               *)
(***************************************************************************)
HandlerNames == {"h1", "h2", "h3"}

\* the lists of distinct handlers of length 0..MaxHandlers
HandlerLists ==
    {s \in UNION {[1..n -> HandlerNames] : n \in 0..MaxHandlers} :
        \A i, j \in DOMAIN s : i # j => s[i] # s[j]}

\* the router and the executor at rest
PipelineIdle ==
    /\ pc = "caller"
    /\ conn = FALSE /\ uid = 0 /\ risk_tol = "moderate" /\ tol = NoValue
    /\ dbRisk = NoValue /\ user_in = "" /\ branch = NoValue /\ turns = 0
    /\ printed = NoValue
    /\ fpc = "idle" /\ question = "" /\ handlers = <<>> /\ chat = "agent"
    /\ hi = 0 /\ ret = NoValue /\ invoked = <<>>
    /\ fsCalls = 0 /\ chatLog = <<>> /\ chatText = NoValue /\ llmCalls = 0
    /\ mem = <<>>

InitFailsafe ==
    /\ PipelineIdle
    /\ ToolsIdle

\* run_with_failsafe(question=q, handlers=hs, chat=c) is entered
DirectCall ==
    /\ pc = "caller"
    /\ fpc = "idle"
    /\ \E q \in Questions, hs \in HandlerLists, c \in {"agent", "stub"} :
        /\ question' = q
        /\ handlers' = hs
        /\ chat' = c
    /\ fpc' = "loop"
    /\ hi' = 0
    /\ ret' = NoValue
    /\ invoked' = <<>>
    /\ chatLog' = <<>>
    /\ chatText' = NoValue
    /\ llmCalls' = 0
    /\ mem' = <<>>
    /\ fsCalls' = 1
    /\ agentCall' = [input |-> NoValue]
    /\ UNCHANGED <<pc, mainVars, forgotten>>
    /\ UNCHANGED deviceVars

NextFailsafe == DirectCall \/ InvokeHandler \/ Fallback

SpecFailsafe == InitFailsafe /\ [][NextFailsafe]_vars

(***************************************************************************)
(* jagent.py: main(), the router loop                                      *)
(***************************************************************************)
\* What the database calls of one branch may do: both succeed, the first
\* raises, or the second raises after the first has committed.
DbOutcomes == {"ok", "first_fails", "second_fails"}

\* "for the rest of the loop body": control returns to console.input
Continue(branchName, text) ==
    /\ branch' = branchName
    /\ printed' = text
    /\ pc' = "input"

\* an exception no except clause of main() catches ends the program
Crash(branchName, exc) ==
    /\ branch' = branchName
    /\ printed' = "Traceback (most recent call last): " \o exc
    /\ pc' = "crash"

\* out = run_with_failsafe(question=q, handlers=hs, chat=agent, ...) is entered
CallFailsafe(branchName, q, hs) ==
    /\ branch' = branchName
    /\ pc' = "failsafe"
    /\ question' = q
    /\ handlers' = hs
    /\ fpc' = "loop"
    /\ hi' = 0
    /\ fsCalls' = fsCalls + 1
    /\ UNCHANGED <<conn, uid, risk_tol, tol, dbRisk, user_in, turns, printed, chat, ret,
                   invoked, chatLog, chatText, llmCalls, mem>>

\* The state when the loop is entered: persistent mode (upsert_user has stored
\* "moderate" and get_user has read it back) or ephemeral mode (--ephemeral, or
\* the database could not be opened).
Init ==
    /\ pc = "input"
    /\ conn \in BOOLEAN
    /\ uid = IF conn THEN 1 ELSE 0
    /\ risk_tol = "moderate"
    /\ tol = NoValue
    /\ dbRisk = IF conn THEN "moderate" ELSE NoValue
    /\ user_in = "" /\ branch = NoValue /\ turns = 0 /\ printed = NoValue
    /\ fpc = "idle" /\ question = "" /\ handlers = <<>> /\ chat = "agent"
    /\ hi = 0 /\ ret = NoValue /\ invoked = <<>>
    /\ fsCalls = 0 /\ chatLog = <<>> /\ chatText = NoValue /\ llmCalls = 0
    /\ mem = <<>>
    /\ ToolsIdle

\* user_in = console.input(...).strip(); an empty line is skipped
ReadInput ==
    /\ pc = "input"
    /\ turns < MaxTurns
    /\ \E raw \in Utterances :
        /\ user_in' = Strip(raw)
        /\ pc' = IF Strip(raw) = "" THEN "input" ELSE "route"
    /\ turns' = turns + 1
    /\ branch' = NoValue
    /\ printed' = NoValue
    /\ fpc' = "idle"
    /\ question' = ""
    /\ handlers' = <<>>
    /\ hi' = 0
    /\ ret' = NoValue
    /\ invoked' = <<>>
    /\ fsCalls' = 0
    /\ chatLog' = <<>>
    /\ chatText' = NoValue
    /\ llmCalls' = 0
    /\ agentCall' = [input |-> NoValue]
    /\ UNCHANGED <<conn, uid, risk_tol, tol, dbRisk, chat, mem, forgotten>>
    /\ UNCHANGED deviceVars

\* console.input raises EOFError or KeyboardInterrupt
EndOfInput ==
    /\ pc = "input"
    /\ pc' = "exit"
    /\ printed' = "Exiting."
    /\ UNCHANGED <<conn, uid, risk_tol, tol, dbRisk, user_in, branch, turns,
                   frameVars, fsCalls, llmCalls, mem>>
    /\ UNCHANGED toolVars

\* low in ("exit", "quit")
Exit ==
    /\ pc = "route"
    /\ RouteOf[user_in] = "exit"
    /\ branch' = "exit"
    /\ printed' = "Ciao ciao."
    /\ pc' = "exit"
    /\ UNCHANGED <<conn, uid, risk_tol, tol, dbRisk, user_in, turns,
                   frameVars, fsCalls, llmCalls, mem>>
    /\ UNCHANGED toolVars

\* low == "help"
Help ==
    /\ pc = "route"
    /\ RouteOf[user_in] = "help"
    /\ Continue("help", HELP)
    /\ UNCHANGED <<conn, uid, risk_tol, tol, dbRisk, user_in, turns,
                   frameVars, fsCalls, llmCalls, mem>>
    /\ UNCHANGED toolVars

\* low.startswith("help ")
HelpTopic ==
    /\ pc = "route"
    /\ RouteOf[user_in] = "help_topic"
    /\ LET topic == Lower(Strip(AfterFirst(Strip(Lower(user_in)), " "))) IN
       Continue("help_topic",
                IF topic \in HELP_TOPICS THEN "help " \o topic ELSE "Unknown help topic.")
    /\ UNCHANGED <<conn, uid, risk_tol, tol, dbRisk, user_in, turns,
                   frameVars, fsCalls, llmCalls, mem>>
    /\ UNCHANGED toolVars

\* tol_guess = _infer_risk_freeform(user_in); if tol_guess: ...
RiskStatement ==
    /\ pc = "route"
    /\ RouteOf[user_in] = "risk"
    /\ LET tol_guess == infer_risk_freeform(user_in) IN
       IF conn
       THEN \E db \in DbOutcomes :
            /\ dbRisk' = IF db = "first_fails" THEN dbRisk ELSE tol_guess
            /\ risk_tol' = IF db = "ok" THEN tol_guess ELSE risk_tol
            /\ Continue("risk",
                        IF db = "ok"
                        THEN "Set risk tolerance to " \o tol_guess \o " (from natural language)."
                        ELSE "Failed to set risk")
       ELSE /\ risk_tol' = tol_guess
            /\ UNCHANGED dbRisk
            /\ IF tol = NoValue
               THEN Crash("risk", "UnboundLocalError: tol")
               ELSE Continue("risk",
                             "Set risk tolerance to " \o tol \o " (from natural language).")
    /\ UNCHANGED <<conn, uid, tol, user_in, turns, frameVars, fsCalls, llmCalls, mem>>
    /\ UNCHANGED toolVars

\* low.startswith("set risk")
SetRisk ==
    /\ pc = "route"
    /\ RouteOf[user_in] = "set_risk"
    /\ LET parts == Words(Strip(Lower(user_in))) IN
       IF Len(parts) >= 3
       THEN /\ tol' = parts[Len(parts)]
            /\ IF conn
               THEN \E db \in DbOutcomes :
                    /\ dbRisk' = IF db = "first_fails" THEN dbRisk ELSE tol'
                    /\ risk_tol' = IF db = "ok" THEN tol' ELSE risk_tol
                    /\ Continue("set_risk",
                                IF db = "ok" THEN "Set risk tolerance to " \o tol' \o "."
                                ELSE "Failed to set risk")
               ELSE /\ risk_tol' = tol'
                    /\ UNCHANGED dbRisk
                    /\ Crash("set_risk", "TypeError: print() got an unexpected keyword argument 'final'")
       ELSE /\ Continue("set_risk", "Usage: set risk <conservative|moderate|aggressive>")
            /\ UNCHANGED <<risk_tol, tol, dbRisk>>
    /\ UNCHANGED <<conn, uid, user_in, turns, frameVars, fsCalls, llmCalls, mem>>
    /\ UNCHANGED toolVars

\* low == "forget me"
ForgetMe ==
    /\ pc = "route"
    /\ RouteOf[user_in] = "forget"
    /\ IF conn /\ uid # 0
       THEN \E db \in DbOutcomes :
            /\ dbRisk' = IF db = "first_fails" THEN dbRisk ELSE "moderate"
            /\ risk_tol' = IF db = "ok" THEN "moderate" ELSE risk_tol
            /\ Continue("forget",
                        IF db = "ok"
                        THEN "Your chats and portfolios have been deleted; saved payees/counterparties were retained."
                        ELSE "Failed to delete")
       ELSE /\ risk_tol' = "moderate"
            /\ UNCHANGED dbRisk
            /\ Continue("forget", "Nothing to delete (ephemeral).")
    /\ forgotten' = Len(mem)
    /\ UNCHANGED <<conn, uid, tol, user_in, turns, frameVars, fsCalls, llmCalls, mem, agentCall>>
    /\ UNCHANGED deviceVars

\* low.startswith("price ")
Price ==
    /\ pc = "route"
    /\ RouteOf[user_in] = "price"
    /\ CallFailsafe("price", user_in, <<"tool_stock_query">>)
    /\ UNCHANGED toolVars

\* low.startswith("analyze portfolio")
AnalyzePortfolio ==
    /\ pc = "route"
    /\ RouteOf[user_in] = "analyze"
    /\ IF ~Contains(user_in, "analyze portfolio")
       THEN /\ Crash("analyze", "IndexError: list index out of range")
            /\ UNCHANGED <<conn, uid, risk_tol, tol, dbRisk, user_in, turns,
                           frameVars, fsCalls, llmCalls, mem>>
       ELSE IF alloc_only(Strip(AfterFirst(user_in, "analyze portfolio"))) = ""
       THEN /\ Continue("analyze", "Example: analyze portfolio 50% AAPL, 30% TSLA, 20% bonds")
            /\ UNCHANGED <<conn, uid, risk_tol, tol, dbRisk, user_in, turns,
                           frameVars, fsCalls, llmCalls, mem>>
       ELSE CallFailsafe("analyze", user_in, <<"tool_portfolio_analysis">>)
    /\ UNCHANGED toolVars

\* low.startswith("fraud ")
Fraud ==
    /\ pc = "route"
    /\ RouteOf[user_in] = "fraud"
    /\ IF ~Contains(user_in, "fraud")
       THEN /\ Crash("fraud", "IndexError: list index out of range")
            /\ UNCHANGED <<conn, uid, risk_tol, tol, dbRisk, user_in, turns,
                           frameVars, fsCalls, llmCalls, mem>>
       ELSE CallFailsafe("fraud", user_in, <<"tool_fraud_check">>)
    /\ UNCHANGED toolVars

\* low.startswith("sentiment ")
Sentiment ==
    /\ pc = "route"
    /\ RouteOf[user_in] = "sentiment"
    /\ CallFailsafe("sentiment", user_in, <<"tool_sentiment">>)
    /\ UNCHANGED toolVars

\* low.startswith("payee add ") or low.startswith("counterparty add ")
PayeeAdd ==
    /\ pc = "route"
    /\ RouteOf[user_in] = "payee_add"
    /\ LET prefix == IF StartsWith(Strip(Lower(user_in)), "payee add ")
                     THEN "payee add " ELSE "counterparty add "
           name == RStripChars(
                       StripChars(StripChars(Strip(SubSeq(user_in, Len(prefix) + 1, Len(user_in))),
                                             {"\""}), {"'"}),
                       {".", ",", ";", ":"})
       IN  IF name = ""
           THEN Continue("payee_add", "Usage: payee/counterparty add <NAME>")
           ELSE IF conn /\ uid # 0
           THEN \E db \in {"ok", "first_fails"} :
                Continue("payee_add",
                         IF db = "ok" THEN "Added/updated payee/counterparty: " \o name
                         ELSE "Failed to add payee/counterparty")
           ELSE Continue("payee_add", "No database (ephemeral mode).")
    /\ UNCHANGED <<conn, uid, risk_tol, tol, dbRisk, user_in, turns,
                   frameVars, fsCalls, llmCalls, mem>>
    /\ UNCHANGED toolVars

\* low.startswith("news ")
News ==
    /\ pc = "route"
    /\ RouteOf[user_in] = "news"
    /\ CallFailsafe("news", NewsQuestion(user_in), <<"tool_news_headlines">>)
    /\ UNCHANGED toolVars

\* low in {"payee list", "counterparty list", "payee/counterparty list"}
PayeeList ==
    /\ pc = "route"
    /\ RouteOf[user_in] = "payee_list"
    /\ IF conn /\ uid # 0
       THEN \E db \in {"ok", "first_fails"} :
            Continue("payee_list",
                     IF db = "ok" THEN "Saved payees/counterparties:"
                     ELSE "Failed to list payees/counterparties")
       ELSE Continue("payee_list", "No database (ephemeral mode).")
    /\ UNCHANGED <<conn, uid, risk_tol, tol, dbRisk, user_in, turns,
                   frameVars, fsCalls, llmCalls, mem>>
    /\ UNCHANGED toolVars

\* alloc_guess = _alloc_only(user_in); if alloc_guess and "%" in alloc_guess
ImplicitAlloc ==
    /\ pc = "route"
    /\ RouteOf[user_in] = "implicit_alloc"
    /\ CallFailsafe("implicit_alloc", user_in, <<"tool_portfolio_analysis">>)
    /\ UNCHANGED toolVars

\* m = PRICE_TICKER_REGEX.search(user_in); if m
ImplicitPrice ==
    /\ pc = "route"
    /\ RouteOf[user_in] = "implicit_price"
    /\ CallFailsafe("implicit_price", user_in, <<"tool_stock_query">>)
    /\ UNCHANGED toolVars

\* out = freeform_only(question=user_in, chat=agent, ...)
Freeform ==
    /\ pc = "route"
    /\ RouteOf[user_in] = "freeform"
    /\ CallFailsafe("freeform", user_in, <<>>)
    /\ UNCHANGED toolVars

\* console.print(out); continue
PrintOut ==
    /\ pc = "failsafe"
    /\ fpc = "returned"
    /\ printed' = ret
    /\ pc' = "input"
    /\ UNCHANGED <<conn, uid, risk_tol, tol, dbRisk, user_in, branch, turns,
                   frameVars, fsCalls, llmCalls, mem>>
    /\ UNCHANGED toolVars

Next ==
    \/ ReadInput \/ EndOfInput
    \/ Exit \/ Help \/ HelpTopic
    \/ RiskStatement \/ SetRisk \/ ForgetMe
    \/ Price \/ AnalyzePortfolio \/ Fraud \/ Sentiment \/ PayeeAdd \/ News \/ PayeeList
    \/ ImplicitAlloc \/ ImplicitPrice \/ Freeform
    \/ InvokeHandler \/ Fallback \/ PrintOut

Spec == Init /\ [][Next]_vars

(***************************************************************************)
(* Properties of the failsafe executor (C1..C7), under SpecFailsafe.       *)
(***************************************************************************)
\* What the claims say of a handler's text: empty, on the denylist, bearing
\* the marker phrase, containing "nan" (computed once per text).
TextFacts ==
    [o \in GateInputs |->
        LET text == Lower(o) IN
        [empty |-> o = "",
         deny |-> \E k \in 1..Len(BAD_PATTERNS) : re_search(BAD_PATTERNS[k], text),
         marker |-> Contains(text, "expected annual return:"),
         nan |-> Contains(text, "nan")]]

Calls == 1..Len(invoked)

\* the run went on after call k: to the next handler, or to the chat fallback
WentOnAfter(k) ==
    \/ k < Len(invoked)
    \/ fpc = "loop"
    \/ fpc = "returned" /\ Len(chatLog) = 1

\* C1: handlers are invoked in list order, each at most once; the run stops at
\* the first handler whose output passes the quality gate: no handler after it
\* is invoked and no earlier one is invoked again.
C1_InOrderStopAtFirstPass ==
    /\ Len(invoked) <= Len(handlers)
    /\ \A k \in Calls : invoked[k].name = handlers[k]
    /\ \A k \in Calls : invoked[k].passed => k = Len(invoked) /\ fpc = "returned"
    /\ \A k \in Calls : k < Len(invoked) => ~invoked[k].passed

\* a run that stopped at the first of two handlers, the second never invoked
C1_Witness ==
    /\ fpc = "returned"
    /\ Len(handlers) = 2
    /\ Len(invoked) = 1
    /\ invoked[1].passed

\* C2: the chat capability is invoked exactly once, with the original
\* question, iff every handler failed or the list is empty, and its text is
\* returned verbatim; when a handler succeeds it is never invoked.
C2_ChatIffAllFailed ==
    /\ Len(chatLog) <= 1
    /\ \A k \in 1..Len(chatLog) : chatLog[k] = question
    /\ (\E k \in Calls : invoked[k].passed) => chatLog = <<>>
    /\ fpc = "returned" =>
        /\ Len(chatLog) = 1 <=>
              (Len(invoked) = Len(handlers) /\ \A k \in Calls : ~invoked[k].passed)
        /\ (Len(chatLog) = 1 /\ chatText # NoValue) => ret = chatText

\* two handlers failed and the chat's text came back
C2_Witness ==
    /\ fpc = "returned"
    /\ Len(invoked) = 2
    /\ Len(chatLog) = 1
    /\ chatText # NoValue
    /\ ret = chatText

C7_SuccessOutputUnchanged ==
    \A k \in Calls : invoked[k].passed => (fpc = "returned" /\ ret = invoked[k].out)

\* the second handler's output came back as it was
C7_Witness ==
    /\ fpc = "returned"
    /\ Len(invoked) = 2
    /\ invoked[2].passed
    /\ ret = invoked[2].out
    /\ ret \in ToolOutputs

(***************************************************************************)
(* Properties of the router loop (C8..C10), under Spec.                    *)
(***************************************************************************)
\* The precedence the claim gives, as the rank of each branch: the prefixed
\* tool commands share rank 7.
BranchRank ==
    [exit |-> 1, help |-> 2, help_topic |-> 3, risk |-> 4, set_risk |-> 5, forget |-> 6,
     price |-> 7, analyze |-> 7, fraud |-> 7, sentiment |-> 7, payee_add |-> 7,
     news |-> 7, payee_list |-> 7, implicit_alloc |-> 8, implicit_price |-> 9,
     freeform |-> 10]

ToolPrefixes ==
    {"price ", "analyze portfolio", "fraud ", "sentiment ", "payee add ",
     "counterparty add ", "news "}

\* the ranks whose predicate the utterance u matches
MatchingRanks(u) ==
    LET low == Strip(Lower(u)) IN
    {k \in 1..10 :
        CASE k = 1 -> low \in {"exit", "quit"}
          [] k = 2 -> low = "help"
          [] k = 3 -> StartsWith(low, "help ")
          [] k = 4 -> infer_risk_freeform(u) # NoValue
          [] k = 5 -> StartsWith(low, "set risk")
          [] k = 6 -> low = "forget me"
          [] k = 7 -> (\E p \in ToolPrefixes : StartsWith(low, p)) \/ low \in PAYEE_LIST
          [] k = 8 -> alloc_only(u) # ""
          [] k = 9 -> re_search(PRICE_TICKER_REGEX, Lower(u))
          [] k = 10 -> TRUE}

Claimed == [u \in Inputs |-> MatchingRanks(u)]

\* C8: every utterance is handled by exactly one branch, the first in the
\* order exit/quit, help, help <topic>, risk statement, set risk, forget me,
\* prefixed tool commands, implicit allocation, implicit ticker price,
\* freeform whose predicate matches; the failsafe executor is called at most
\* once per utterance; an utterance that has a tool prefix and is a risk
\* statement is handled as a risk statement and its tool is not invoked.
C8_FirstMatchingBranchOnly ==
    /\ fsCalls <= 1
    /\ Len(chatLog) <= 1
    /\ branch # NoValue =>
        /\ BranchRank[branch] \in Claimed[user_in]
        /\ \A k \in Claimed[user_in] : BranchRank[branch] <= k
        /\ (4 \in Claimed[user_in] /\ 7 \in Claimed[user_in]) =>
              (branch = "risk" /\ invoked = <<>> /\ fsCalls = 0)

\* C8's case: "sentiment I am happy" was handled as a risk statement
C8_Witness ==
    /\ pc = "input"
    /\ user_in = "sentiment I am happy"
    /\ branch = "risk"
    /\ risk_tol = "aggressive"
    /\ invoked = <<>>

BannedInput == [u \in Inputs |-> HasBanned(u)]

\* C9: for an utterance that contains a banned phrase no tool handler is
\* executed, the language-model executor is not invoked, and the fixed
\* refusal message is what the user gets, whichever branch it matches.
C9_BannedInputShortCircuits ==
    BannedInput[user_in] =>
        /\ invoked = <<>>
        /\ llmCalls = 0
        /\ (branch # NoValue /\ pc = "input") => printed = REFUSAL

\* C10: processing an utterance never ends in an unhandled exception, in
\* persistent and in ephemeral mode alike.
C10_NoUnhandledException == pc # "crash"

(***************************************************************************)
(* The price chain called directly: resolutions of a symbol, one after the *)
(* other, while the clock advances.  The clock counts hours and starts     *)
(* three hours before midnight.                                            *)
(***************************************************************************)
MaxResolves == 2

MaxClock == 24

PriceFunctions == {"get_latest_price", "get_realtime_price"}

Symbols == {"bonds"}

InitPrice ==
    /\ PipelineIdle
    /\ cache = NoFile
    /\ clock = 21
    /\ resolves = 0
    /\ last = [fn |-> NoValue]
    /\ puts = <<>>
    /\ writers = <<>>
    /\ readOut = [symbol |-> NoValue]
    /\ fraudIn = [via |-> NoValue]
    /\ fraudOut = [via |-> NoValue]
    /\ MoreIdle

\* one call of get_latest_price or get_realtime_price, start to finish
ResolvePrice ==
    /\ resolves < MaxResolves
    /\ \E fn \in PriceFunctions, symbol \in Symbols :
        LET sy == map_symbol(symbol)
            today == today_str(clock)
            cached == [b \in BOOLEAN |-> get_cached_price(cache, sy, today, clock, b)]
            written == Written(cache, sy, today, clock)
        IN
        \E readable \in (IF cache.exists THEN BOOLEAN ELSE {TRUE}) :
        \E env \in EnvironmentsOf[fn, cached[readable] # None, readable] :
        LET r == ChainFrom(fn, cache, cached[readable], written, env) IN
        /\ last' = [fn |-> fn, symbol |-> symbol, at |-> clock, readable |-> env.readable,
                    nputs |-> Len(puts), price |-> r.price, src |-> r.src,
                    calls |-> r.calls, put |-> r.put]
        /\ cache' = r.file
        /\ puts' = IF r.put = "ok"
                   THEN Append(puts, [symbol |-> map_symbol(symbol), price |-> r.price[1],
                                      at |-> clock])
                   ELSE puts
    /\ resolves' = resolves + 1
    /\ UNCHANGED <<clock, writers, readOut, fraudIn, fraudOut>>
    /\ UNCHANGED moreVars
    /\ UNCHANGED pipelineVars

\* an hour passes
Tick ==
    /\ clock < MaxClock
    /\ clock' = clock + 1
    /\ UNCHANGED <<cache, resolves, last, puts, writers, readOut, fraudIn, fraudOut>>
    /\ UNCHANGED moreVars
    /\ UNCHANGED pipelineVars

NextPrice == ResolvePrice \/ Tick

SpecPrice == InitPrice /\ [][NextPrice]_vars

(***************************************************************************)
(* Claims C11..C15: the price resolution chain                             *)
(***************************************************************************)
\* the fixed order of the sources
SourceRank ==
    [cache |-> 1, primary |-> 2, secondary_intraday |-> 3, secondary_daily |-> 4]

Resolved == last.fn # NoValue

C12_ExhaustedIsUnavailable ==
    (Resolved /\ last.price = None) => last.src = "unavailable"

\* rows written for the symbol of the last resolution before it began, no
\* older than the TTL when it began
Fresh ==
    {i \in 1..last.nputs :
        /\ puts[i].symbol = map_symbol(last.symbol)
        /\ last.at - puts[i].at <= CACHE_TTL_HOURS}

\* those of them written on the calendar date of the last resolution
FreshToday == {i \in Fresh : puts[i].at \div 24 = last.at \div 24}

\* the last resolution returned the price of the i-th row written, from the
\* cache, and queried no provider
FromCache(i) ==
    /\ last.price = <<puts[i].price>>
    /\ last.src \in {"cache:today", "cache(csv)"}
    /\ last.calls = <<Query("cache", TRUE)>>

Latest(rows) == CHOOSE i \in rows : \A j \in rows : j <= i

ProviderTag ==
    [primary |-> "alpha_vantage", secondary_intraday |-> "yfinance (intraday)",
     secondary_daily |-> "yfinance:last_close"]

\* C14: when a provider returned a price and the write-back to the cache
\* failed, the resolution still returns that provider's price and source tag.
C14_WriteFailureSwallowed ==
    (Resolved /\ last.put = "failed") =>
        LET q == last.calls[Len(last.calls)] IN
        /\ q.got
        /\ q.source \in DOMAIN Quote
        /\ last.price = <<Quote[q.source]>>
        /\ last.src = ProviderTag[q.source]

\* the primary provider's price came back although the cache could not be
\* written
C14_Witness ==
    /\ Resolved
    /\ last.put = "failed"
    /\ last.src = "alpha_vantage"
    /\ last.price = <<Quote.primary>>
    /\ cache = NoFile

\* the texts tool_stock_query returns when get_latest_price found no price
ExhaustedTexts == {StockQueryText("NVDA", r) : r \in {x \in LatestPricePairs : x.price = None}}

\* C15: when the price handler reports that the chain was exhausted without a
\* price, whatever the failure tag, the executor does not accept the text: it
\* goes on to the chat capability and returns the chat's answer, not the
\* handler's failure text.
C15_ExhaustedPriceEscalates ==
    \A k \in Calls :
        (/\ invoked[k].name = "tool_stock_query"
         /\ ~invoked[k].raised
         /\ invoked[k].out \in ExhaustedTexts)
        => /\ ~invoked[k].passed
           /\ fpc = "returned" => (Len(chatLog) = 1 /\ ret # invoked[k].out)

(***************************************************************************)
(* The cache file under independent requests: calls of put_cached_price    *)
(* that interleave step by step, and reads of the file.  A writer looks    *)
(* whether the file exists, opens it for appending (which creates it) and, *)
(* when the file is closed, appends its buffered text in one write: the    *)
(* header if it saw no file, and its row.  The clock stands still.         *)
(***************************************************************************)
MaxWriters == 2

MaxPuts == 2

Writers == 1..MaxWriters

IdleWriter == [pc |-> "idle", symbol |-> "", date |-> "", price |-> 0, exists |-> FALSE]

CacheSymbols == {"BND", "nvda"}

CachePrices == {100, 101}

InitCache ==
    /\ PipelineIdle
    /\ cache = NoFile
    /\ clock = 22
    /\ resolves = 0
    /\ last = [fn |-> NoValue]
    /\ puts = <<>>
    /\ writers = [w \in Writers |-> IdleWriter]
    /\ readOut = [symbol |-> NoValue]
    /\ fraudIn = [via |-> NoValue]
    /\ fraudOut = [via |-> NoValue]
    /\ MoreIdle

Started == Len(puts) + Cardinality({w \in Writers : writers[w].pc # "idle"})

\* a request calls put_cached_price(symbol, today, price)
PutCall(w) ==
    /\ writers[w].pc = "idle"
    /\ Started < MaxPuts
    /\ \E symbol \in CacheSymbols, price \in CachePrices :
        writers' = [writers EXCEPT ![w] = [pc |-> "check", symbol |-> symbol,
                                          date |-> today_str(clock), price |-> price,
                                          exists |-> FALSE]]
    /\ UNCHANGED <<cache, clock, resolves, last, puts, readOut, fraudIn, fraudOut>>
    /\ UNCHANGED moreVars
    /\ UNCHANGED pipelineVars

\* "exists = os.path.exists(CACHE_PATH)"
PutCheck(w) ==
    /\ writers[w].pc = "check"
    /\ writers' = [writers EXCEPT ![w].pc = "open", ![w].exists = cache.exists]
    /\ UNCHANGED <<cache, clock, resolves, last, puts, readOut, fraudIn, fraudOut>>
    /\ UNCHANGED moreVars
    /\ UNCHANGED pipelineVars

\* "with open(CACHE_PATH, "a", ...)": the file is created if it is not there
PutOpen(w) ==
    /\ writers[w].pc = "open"
    /\ writers' = [writers EXCEPT ![w].pc = "write"]
    /\ cache' = [cache EXCEPT !.exists = TRUE]
    /\ UNCHANGED <<clock, resolves, last, puts, readOut, fraudIn, fraudOut>>
    /\ UNCHANGED moreVars
    /\ UNCHANGED pipelineVars

\* writeheader, writerow and the close of the file
PutWrite(w) ==
    /\ writers[w].pc = "write"
    /\ cache' = Appended(cache, writers[w].exists,
                         CacheRow(writers[w].symbol, writers[w].date, writers[w].price, clock))
    /\ puts' = Append(puts, [symbol |-> Upper(writers[w].symbol), date |-> writers[w].date,
                             price |-> writers[w].price, at |-> clock])
    /\ writers' = [writers EXCEPT ![w] = IdleWriter]
    /\ UNCHANGED <<clock, resolves, last, readOut, fraudIn, fraudOut>>
    /\ UNCHANGED moreVars
    /\ UNCHANGED pipelineVars

\* opening the file raises: "except Exception", nothing is written
PutRaise(w) ==
    /\ writers[w].pc = "open"
    /\ writers' = [writers EXCEPT ![w] = IdleWriter]
    /\ UNCHANGED <<cache, clock, resolves, last, puts, readOut, fraudIn, fraudOut>>
    /\ UNCHANGED moreVars
    /\ UNCHANGED pipelineVars

\* a request calls get_cached_price(symbol, date)
ReadCache ==
    /\ \E symbol \in {"bnd", "NVDA"}, date \in {today_str(clock)}, readable \in BOOLEAN :
        readOut' = [symbol |-> symbol, date |-> date, nputs |-> Len(puts),
                    price |-> get_cached_price(cache, symbol, date, clock, readable)]
    /\ UNCHANGED <<cache, clock, resolves, last, puts, writers, fraudIn, fraudOut>>
    /\ UNCHANGED moreVars
    /\ UNCHANGED pipelineVars

NextCache ==
    \/ \E w \in Writers : PutCall(w) \/ PutCheck(w) \/ PutOpen(w) \/ PutWrite(w) \/ PutRaise(w)
    \/ ReadCache

SpecCache == InitCache /\ [][NextCache]_vars

(***************************************************************************)
(* Claim C16: last write wins on read                                      *)
(***************************************************************************)
\* the rows written for the key of the last read before it was made
RowsOfKey ==
    {i \in 1..readOut.nputs :
        puts[i].symbol = Upper(readOut.symbol) /\ puts[i].date = readOut.date}

\* C16: after any sequence of cache writes, interleaved writers of independent
\* requests and duplicate rows included, a read of a (symbol, date) key returns
\* a miss or the price of the row most recently written for that key, never
\* the price of an older row or of a row of another key.
C16_LastWriteWins ==
    readOut.symbol # NoValue =>
        \/ readOut.price = None
        \/ RowsOfKey # {} /\ readOut.price = <<puts[Latest(RowsOfKey)].price>>

\* two interleaved writers, neither of which saw the file, wrote the same key
\* with different prices, and a read returned the second price
C16_Witness ==
    /\ readOut.symbol # NoValue
    /\ RowsOfKey = {1, 2}
    /\ puts[1].price # puts[2].price
    /\ Len(cache.lines) = 4
    /\ cache.lines[3] = CSV_HEADER
    /\ readOut.price = <<puts[2].price>>

(***************************************************************************)
(* agent/fraud.py: the fraud screen.  A transaction is a record of         *)
(* optional fields, amounts are whole currency units.                      *)
(***************************************************************************)
RECURSIVE Sum(_)
Sum(xs) == IF xs = <<>> THEN 0 ELSE Head(xs) + Sum(Tail(xs))

Abs(n) == IF n < 0 THEN -n ELSE n

\* the z-score test of zscore_flag in whole numbers: with n points of sum S,
\* |amount - mu| / sd > 3 is n * (n * amount - S)^2 > 9 * Sum((n * x - S)^2),
\* and a standard deviation of 0 counts as 1.0
ZScoreOver3(amount, history) ==
    LET n == Len(history)
        S == Sum(history)
        dev == Sum([i \in 1..n |-> (n * history[i] - S) * (n * history[i] - S)])
        d == Abs(n * amount - S)
    IN  IF dev = 0 THEN d > 3 * n ELSE d * d > (9 * dev) \div n

\* C20's mutant: no minimum number of points
zscore_flag_nomin(amount, history) == history # <<>> /\ ZScoreOver3(amount, history)

\* zscore_flag
zscore_flag(amount, history) ==
    IF history = <<>> \/ Len(history) < 5 THEN FALSE ELSE ZScoreOver3(amount, history)

\* _parse_hour: the hour field, else the hours of a "time" text, else -1
parse_hour(tx) ==
    IF tx.hour # None THEN tx.hour[1]
    ELSE IF tx.time # None /\ Contains(tx.time[1], ":")
              /\ IsNumber(Strip(SubSeq(tx.time[1], 1,
                     (CHOOSE i \in 1..Len(tx.time[1]) :
                         /\ At(tx.time[1], i) = ":"
                         /\ \A j \in 1..(i - 1) : At(tx.time[1], j) # ":") - 1)))
    THEN StrToInt(Strip(SubSeq(tx.time[1], 1,
                     (CHOOSE i \in 1..Len(tx.time[1]) :
                         /\ At(tx.time[1], i) = ":"
                         /\ \A j \in 1..(i - 1) : At(tx.time[1], j) # ":") - 1)))
    ELSE -1

\* C18's mutant: the threshold itself is not large
LargeAmount_strict(amt, large_amt) == amt > large_amt

\* "amt >= large_amt"
LargeAmount(amt, large_amt) == amt >= large_amt

\* C19's mutant: one flag alone is not suspicious
Suspicious_two(flags) == Len(flags) >= 2

\* "bool(flags)"
Suspicious(flags) == flags # <<>>

\* simple_fraud_check(tx, known_counterparties, policy, history_by_cp)
simple_fraud_check(tx, known_counterparties, policy, history_by_cp) ==
    LET odd_hours == IF policy.odd_hours = None THEN {0, 1, 2, 3, 4} ELSE policy.odd_hours[1]
        large_amt == IF policy.large_amount_threshold = None THEN 5000
                     ELSE policy.large_amount_threshold[1]
        amt == IF tx.amount = None THEN 0 ELSE tx.amount[1]
        cp == Strip(IF tx.counterparty = None THEN "" ELSE tx.counterparty[1])
        hour == parse_hour(tx)
        hist == IF history_by_cp # None /\ cp \in DOMAIN history_by_cp[1]
                THEN history_by_cp[1][cp] ELSE <<>>
        flags ==
            (IF hour \in odd_hours THEN <<"odd-hour">> ELSE <<>>)
            \o (IF known_counterparties # None /\ cp # "" /\ cp \notin known_counterparties[1]
                THEN <<"unknown-counterparty">> ELSE <<>>)
            \o (IF LargeAmount(amt, large_amt) THEN <<"large-amount">> ELSE <<>>)
            \o (IF /\ history_by_cp # None
                   /\ DOMAIN history_by_cp[1] # {}
                   /\ cp # ""
                   /\ zscore_flag(amt, hist)
                THEN <<"amount-anomaly">> ELSE <<>>)
    IN  [suspicious |-> Suspicious(flags), flags |-> flags, amount |-> amt, hour |-> hour,
         counterparty |-> cp]

\* tool_fraud_check's call: "known_counterparties or set()", no history
ToolKnown(known_counterparties) ==
    IF known_counterparties = None \/ known_counterparties[1] = {} THEN <<{}>>
    ELSE known_counterparties

(***************************************************************************)
(* The fraud screen applied to sample transactions                         *)
(***************************************************************************)
Transactions ==
    [amount : {None, <<0>>, <<4999>>, <<5000>>, <<6000>>},
     counterparty : {None, <<"">>, <<"X">>, <<" X ">>, <<"x">>},
     hour : {None, <<0>>, <<4>>, <<5>>, <<12>>},
     time : {None, <<"03:15">>, <<"noon">>}]

KnownSets == {None, <<{}>>, <<{"X"}>>, <<{"Y"}>>}

\* no policy (the defaults), the router's policy, one of other values
Policies ==
    {[odd_hours |-> None, large_amount_threshold |-> None],
     [odd_hours |-> <<{0, 1, 2, 3, 4, 5}>>, large_amount_threshold |-> <<5000>>],
     [odd_hours |-> <<{12}>>, large_amount_threshold |-> None]}

\* no history, an empty mapping, and histories of 4, 5 and 6 points (one of
\* them with a standard deviation of 0, one with a standard deviation of 0.4)
Histories ==
    {None, << <<>> >>,
     <<[c \in {"X"} |-> <<10, 10, 10, 10>>]>>,
     <<[c \in {"X"} |-> <<4999, 4999, 4999, 4999, 4999>>]>>,
     <<[c \in {"X"} |-> <<4997, 4997, 4997, 4997, 4998>>]>>,
     <<[c \in {"X", "x"} |-> IF c = "X" THEN <<10, 20, 10, 20, 10, 20>> ELSE <<10, 20, 30>>]>>}

\* the arguments of one call, direct or through tool_fraud_check (which passes
\* no history)
FraudInputs ==
    {[via |-> via, tx |-> tx, known |-> known, policy |-> policy,
      history |-> IF via = "tool" THEN None ELSE history] :
        via \in {"direct", "tool"}, tx \in Transactions, known \in KnownSets,
        policy \in Policies, history \in Histories}

InitFraud ==
    /\ PipelineIdle
    /\ cache = NoFile
    /\ clock = 0
    /\ resolves = 0
    /\ last = [fn |-> NoValue]
    /\ puts = <<>>
    /\ writers = <<>>
    /\ readOut = [symbol |-> NoValue]
    /\ fraudIn \in FraudInputs
    /\ fraudOut = [via |-> NoValue]
    /\ MoreIdle

\* simple_fraud_check is called, directly or by tool_fraud_check
Screen ==
    /\ fraudOut.via = NoValue
    /\ fraudOut' =
          [via |-> fraudIn.via] @@
          (IF fraudIn.via = "tool"
           THEN simple_fraud_check(fraudIn.tx, ToolKnown(fraudIn.known), fraudIn.policy, None)
           ELSE simple_fraud_check(fraudIn.tx, fraudIn.known, fraudIn.policy, fraudIn.history))
    /\ UNCHANGED <<cache, clock, resolves, last, puts, writers, readOut, fraudIn>>
    /\ UNCHANGED moreVars
    /\ UNCHANGED pipelineVars

NextFraud == Screen

SpecFraud == InitFraud /\ [][NextFraud]_vars

(***************************************************************************)
(* Claims C17..C20: the fraud rules                                        *)
(***************************************************************************)
Screened == fraudOut.via # NoValue

Flagged(flag) == \E k \in 1..Len(fraudOut.flags) : fraudOut.flags[k] = flag

\* the transaction's counterparty, trimmed
Trimmed == Strip(IF fraudIn.tx.counterparty = None THEN "" ELSE fraudIn.tx.counterparty[1])

\* C17: the 'unknown-counterparty' flag is raised if and only if a
\* known-counterparty set is supplied, the set is non-empty and the
\* transaction's trimmed counterparty is absent from it (case-sensitive); with
\* an empty known-counterparty set the flag never fires.
C17_UnknownCounterpartyRule ==
    Screened =>
        (Flagged("unknown-counterparty") <=>
            /\ fraudIn.known # None
            /\ fraudIn.known[1] # {}
            /\ Trimmed \notin fraudIn.known[1])

\* the odd hours and the threshold of a policy, the defaults where it has none
OddHoursOf(policy) == IF policy.odd_hours = None THEN 0..4 ELSE policy.odd_hours[1]

ThresholdOf(policy) ==
    IF policy.large_amount_threshold = None THEN 5000 ELSE policy.large_amount_threshold[1]

AmountOf(tx) == IF tx.amount = None THEN 0 ELSE tx.amount[1]

\* C18: for every transaction and policy 'odd-hour' is flagged iff the
\* transaction's hour is in the policy's odd hours and 'large-amount' iff the
\* amount is at least the policy's threshold, whatever other rules fire; amount
\* 6000 at hour 0 under the default policy yields both flags.
C18_RulesIndependent ==
    Screened =>
        /\ Flagged("odd-hour") <=> fraudOut.hour \in OddHoursOf(fraudIn.policy)
        /\ Flagged("large-amount") <=> AmountOf(fraudIn.tx) >= ThresholdOf(fraudIn.policy)
        /\ (/\ fraudIn.tx.amount = <<6000>>
            /\ fraudIn.tx.hour = <<0>>
            /\ fraudIn.policy = [odd_hours |-> None, large_amount_threshold |-> None])
           => Flagged("odd-hour") /\ Flagged("large-amount")

\* the transaction {amount: 6000, counterparty: "X", hour: 0}, screened with
\* known_counterparties=set() under the default policy, got both flags
C18_Witness ==
    /\ Screened
    /\ fraudIn.tx = [amount |-> <<6000>>, counterparty |-> <<"X">>, hour |-> <<0>>,
                     time |-> None]
    /\ fraudIn.known = <<{}>>
    /\ fraudIn.policy = [odd_hours |-> None, large_amount_threshold |-> None]
    /\ Flagged("odd-hour") /\ Flagged("large-amount")
    /\ fraudOut.suspicious

\* C19: is_suspicious is true if and only if at least one flag was raised.
C19_SuspiciousIffFlagged ==
    Screened => (fraudOut.suspicious <=> fraudOut.flags # <<>>)

\* a transaction with exactly one flag is suspicious
C19_Witness ==
    /\ Screened
    /\ fraudOut.flags = <<"large-amount">>
    /\ fraudOut.suspicious

\* the amounts on record for the transaction's counterparty
PointsOnRecord ==
    IF fraudIn.history # None /\ Trimmed \in DOMAIN fraudIn.history[1]
    THEN Len(fraudIn.history[1][Trimmed]) ELSE 0

\* C20: 'amount-anomaly' never fires when the counterparty has 4 or fewer
\* amounts on record, whatever the amount; it fires only with 5 or more points
\* for that same counterparty.
C20_AnomalyNeedsFivePoints ==
    Screened => (Flagged("amount-anomaly") => PointsOnRecord >= 5)

\* 6000 against four amounts of 10 on record: no anomaly flag
C20_Witness ==
    /\ Screened
    /\ PointsOnRecord = 4
    /\ fraudIn.tx.amount = <<6000>>
    /\ ~Flagged("amount-anomaly")
    /\ Flagged("large-amount")

\* the amounts on record for the transaction's counterparty
RecordedAmounts ==
    IF fraudIn.history # None /\ Trimmed \in DOMAIN fraudIn.history[1]
    THEN fraudIn.history[1][Trimmed] ELSE <<>>

\* C21: the standard deviation of the z-score is floored at 1.0: for every
\* history of at least 5 amounts whose standard deviation is below 1.0 (with n
\* points of sum S, Sum((n * x - S)^2) < n^3), the flag fires iff
\* |amount - mean| > 3.
C21_StdDevFlooredAtOne ==
    Screened =>
        LET n == Len(RecordedAmounts)
            S == Sum(RecordedAmounts)
            dev == Sum([i \in 1..n |-> (n * RecordedAmounts[i] - S) * (n * RecordedAmounts[i] - S)])
        IN  (n >= 5 /\ dev < n * n * n) =>
                (Flagged("amount-anomaly") <=> Abs(n * AmountOf(fraudIn.tx) - S) > 3 * n)


(***************************************************************************)
(* agent/portfolio.py and tool_portfolio_analysis: reading an allocation   *)
(*                                                                         *)
(* A weight is an integer count of ten-thousandths, so that float("12.5")  *)
(* / 100.0 is exact; numerals are read to two decimals.  A normalized      *)
(* weight v / total is kept as the exact fraction [num |-> v, den |->      *)
(* total]; the rounding of floating-point division is not modelled.  A     *)
(* Python dict is a function from its keys, a call that raises returns     *)
(* [raised |-> TRUE, exc |-> ...].                                         *)
(***************************************************************************)
Raise(e) == [raised |-> TRUE, exc |-> e]

Return(v) == [raised |-> FALSE, value |-> v]

EmptyDict == [k \in {} |-> 0]

\* d[k] = v
DictPut(d, k, v) == [x \in DOMAIN d \cup {k} |-> IF x = k THEN v ELSE d[x]]

\* sum(d.values())
RECURSIVE SumValues(_)
SumValues(d) ==
    IF DOMAIN d = {} THEN 0
    ELSE LET k == CHOOSE x \in DOMAIN d : TRUE
         IN  d[k] + SumValues([x \in DOMAIN d \ {k} |-> d[x]])

\* float(numeral), in ten-thousandths
Float(numeral) ==
    LET dots == {i \in 1..Len(numeral) : At(numeral, i) = "."}
    IN  IF dots = {} THEN 10000 * StrToInt(numeral)
        ELSE LET d == CHOOSE i \in dots : TRUE
                 frac == SubSeq(numeral, d + 1, Len(numeral)) \o "00"
             IN  10000 * StrToInt(SubSeq(numeral, 1, d - 1))
                     + 100 * StrToInt(SubSeq(frac, 1, 2))

\* the characters of s that are in cs: re.sub(r'[^A-Za-z0-9]', '', sym)
RECURSIVE Keep(_, _)
Keep(s, cs) ==
    IF s = "" THEN ""
    ELSE (IF At(s, 1) \in cs THEN At(s, 1) ELSE "") \o Keep(SubSeq(s, 2, Len(s)), cs)

Numeral == Cat(<<Plus(Cls(DigitChars)), Opt(Cat(<<Lit("."), Plus(Cls(DigitChars))>>))>>)

\* normalize_allocations, dividing by a total taken some other way
normalize_by(alloc, total) ==
    IF total <= 0 THEN Raise("ValueError: Allocation weights must sum to > 0")
    ELSE Return([k \in DOMAIN alloc |-> [num |-> alloc[k], den |-> total]])

\* a variant that divides by the number of symbols
normalize_allocations_count(alloc) ==
    normalize_by(alloc, IF SumValues(alloc) <= 0 THEN 0 ELSE Cardinality(DOMAIN alloc))

\* normalize_allocations
normalize_allocations(alloc) == normalize_by(alloc, SumValues(alloc))

\* the pattern of parse_percent_alloc
PERCENT_PAIR ==
    Cat(<<Grp("pct", Numeral), Star(WS), Lit("%"), Star(WS),
          Grp("sym", Cat(<<Cls(LetterChars \cup DigitChars),
                           Star(Cls(LetterChars \cup DigitChars \cup {".", "-", "_"}))>>))>>)

\* the loop of parse_percent_alloc: out[sym_clean] = out.get(sym_clean, 0.0) + w
RECURSIVE percent_out(_, _, _)
percent_out(s, pairs, out) ==
    IF pairs = <<>> THEN out
    ELSE LET w == Float(Group(s, Head(pairs), "pct")) \div 100
             sym_clean == Upper(Keep(Group(s, Head(pairs), "sym"), LetterChars \cup DigitChars))
         IN  IF sym_clean = "" THEN percent_out(s, Tail(pairs), out)
             ELSE percent_out(s, Tail(pairs),
                      DictPut(out, sym_clean,
                              (IF sym_clean \in DOMAIN out THEN out[sym_clean] ELSE 0) + w))

\* parse_percent_alloc
parse_percent_alloc(s) ==
    LET out == percent_out(s, FindAll(PERCENT_PAIR, s, 0), EmptyDict)
    IN  IF DOMAIN out = {} THEN Raise("ValueError: Could not parse any allocations.")
        ELSE normalize_allocations(out)

\* {map_symbol(str(k)): float(v) for k, v in items}: a later item replaces an
\* earlier one with the same mapped key
RECURSIVE mapped_items(_, _)
mapped_items(items, vals) ==
    IF items = <<>> THEN vals
    ELSE mapped_items(Tail(items), DictPut(vals, map_symbol(Head(items)[1]), Head(items)[2]))

\* _normalize_from_dict, d given as the items of the dict
normalize_from_dict(items) ==
    LET vals == mapped_items(items, EmptyDict)
        total == SumValues(vals)
    IN  IF total <= 0 THEN Raise("ValueError: Portfolio weights must sum to a positive value.")
        ELSE Return([k \in DOMAIN vals |-> [num |-> vals[k], den |-> total]])

\* the pattern of _try_parse_key_value_pairs
QuoteChars == {"\""} \cup {"'"}

Quote12 == Cls(QuoteChars)

KEY_VALUE ==
    Cat(<<Opt(Quote12),
          Grp("k", Cat(<<Cls(LetterChars),
                         Rep(Cls(LetterChars \cup DigitChars \cup {".", "-"}), 0, 9)>>)),
          Opt(Quote12), Star(WS), Cls({":", "="}), Star(WS),
          Grp("v", Numeral)>>)

\* the items <<k, float(v)>> of the matches of a pattern with groups k and v
RECURSIVE items_of(_, _)
items_of(s, pairs) ==
    IF pairs = <<>> THEN <<>>
    ELSE <<<<Group(s, Head(pairs), "k"), Float(Group(s, Head(pairs), "v"))>>>>
             \o items_of(s, Tail(pairs))

\* the items of a dict, in some order
RECURSIVE dict_items(_)
dict_items(d) ==
    IF DOMAIN d = {} THEN <<>>
    ELSE LET k == CHOOSE x \in DOMAIN d : TRUE
         IN  <<<<k, d[k]>>>> \o dict_items([x \in DOMAIN d \ {k} |-> d[x]])

\* _try_parse_key_value_pairs: None, or what _normalize_from_dict(d) does
try_parse_key_value_pairs(s) ==
    LET pairs == FindAll(KEY_VALUE, s, 0)
    IN  IF pairs = <<>> THEN None
        ELSE <<normalize_from_dict(dict_items(mapped_items(items_of(s, pairs), EmptyDict)))>>

\* the items of a dict display: a key written twice keeps its last value
RECURSIVE last_items(_)
last_items(items) ==
    IF items = <<>> THEN <<>>
    ELSE LET rest == last_items(Tail(items))
         IN  IF \E i \in 1..Len(rest) : rest[i][1] = Head(items)[1] THEN rest
             ELSE <<Head(items)>> \o rest

\* the characters the sample texts are written in (no backticks, no
\* typographic quotes)
TextChars ==
    LetterChars \cup DigitChars \cup SpaceChars
        \cup QuoteChars \cup {".", ",", ";", ":", "-", "_", "%", "{", "}", "=", "?", "!"}

\* the first position of character c in s at or after from, 0 if there is none
IndexFrom(s, c, from) ==
    LET hits == {k \in from..Len(s) : At(s, k) = c}
    IN  IF hits = {} THEN 0 ELSE CHOOSE k \in hits : \A h \in hits : k <= h

\* re.finditer(r"\{.*?\}", s, DOTALL): each block runs from a brace to
\* the first closing brace after it
RECURSIVE dict_blocks(_)
dict_blocks(s) ==
    LET i == IndexFrom(s, "{", 1)
        j == IF i = 0 THEN 0 ELSE IndexFrom(s, "}", i + 1)
    IN  IF j = 0 THEN <<>>
        ELSE <<SubSeq(s, i, j)>> \o dict_blocks(SubSeq(s, j + 1, Len(s)))

\* json.loads and ast.literal_eval, for the texts that are a flat map from
\* quoted keys to unsigned numerals (single quotes are read by literal_eval
\* only, double quotes by both; the keys hold no quote, brace or comma);
\* every other text makes both raise.
DictItem(q) ==
    Cat(<<Lit(q), Grp("k", Star(Cls((TextChars \ QuoteChars) \ {"{", "}", ","}))), Lit(q),
          Star(WS), Lit(":"), Star(WS), Grp("v", Numeral)>>)

DICT_ITEM == Alt(<<DictItem("\""), DictItem("'")>>)

\* re.fullmatch(r, s) is not None
FullMatch(r, s) ==
    LET ms == Match(r, s, 0, <<>>) IN \E k \in 1..Len(ms) : ms[k][1] = Len(s)

\* s.split(c) for a character c
RECURSIVE SplitOn(_, _)
SplitOn(s, c) ==
    LET i == IndexFrom(s, c, 1)
    IN  IF i = 0 THEN <<s>>
        ELSE <<SubSeq(s, 1, i - 1)>> \o SplitOn(SubSeq(s, i + 1, Len(s)), c)

\* the items the parts of a dict display denote, <<>> if a part is no item
RECURSIVE part_items(_)
part_items(parts) ==
    IF parts = <<>> THEN <<>>
    ELSE LET part == Strip(Head(parts))
             rest == part_items(Tail(parts))
         IN  IF FullMatch(DICT_ITEM, part) /\ (Len(parts) = 1 \/ rest # <<>>)
             THEN items_of(part, FindAll(DICT_ITEM, part, 0)) \o rest
             ELSE <<>>

\* the items of the dict the attempt denotes, <<>> when it denotes none
loads(attempt) ==
    LET a == Strip(attempt)
    IN  IF Len(a) >= 2 /\ At(a, 1) = "{" /\ At(a, Len(a)) = "}"
        THEN last_items(part_items(SplitOn(SubSeq(a, 2, Len(a) - 1), ",")))
        ELSE <<>>

\* the loop over candidates: an attempt that is no dict, is empty, or makes
\* _normalize_from_dict raise is passed over
RECURSIVE first_dict(_)
first_dict(candidates) ==
    IF candidates = <<>> THEN None
    ELSE LET items == loads(Head(candidates))
             r == normalize_from_dict(items)
         IN  IF items # <<>> /\ ~r.raised THEN <<r>> ELSE first_dict(Tail(candidates))

\* _try_parse_dict_strings
try_parse_dict_strings(text) ==
    LET s == StripChars(Strip(text), SpaceChars)
        blocks == dict_blocks(s)
    IN  first_dict(blocks \o (IF \E i \in 1..Len(blocks) : blocks[i] = s THEN <<>> ELSE <<s>>))

\* A portfolio argument is a text, [form |-> "str", text |-> ...], or a dict,
\* [form |-> "dict", items |-> ...] with whole-number values.
RECURSIVE dict_floats(_)
dict_floats(items) ==
    IF items = <<>> THEN <<>>
    ELSE <<<<Head(items)[1], 10000 * Head(items)[2]>>>> \o dict_floats(Tail(items))

\* the weights of tool_portfolio_analysis (lines 255-262), with the parser
\* that gave them
By(parser, result) == [parser |-> parser, result |-> result]

\* a parser's answer if it has one (a is None or <<result>>), otherwise the
\* next parser's
OrElse(a, parser, otherwise) == IF a # None THEN By(parser, Head(a)) ELSE otherwise

portfolio_weights(portfolio) ==
    IF portfolio.form = "str"
    THEN OrElse(try_parse_dict_strings(portfolio.text), "_try_parse_dict_strings",
             OrElse(try_parse_key_value_pairs(portfolio.text), "_try_parse_key_value_pairs",
                 By("parse_percent_alloc", parse_percent_alloc(portfolio.text))))
    ELSE By("_normalize_from_dict", normalize_from_dict(dict_floats(portfolio.items)))

\* the symbols whose history is fetched (the columns of the returns), and the
\* weight each column gets in expected_return and portfolio_volatility,
\* weights.get(c, 0.0)
Columns(w, symbols) ==
    [weights |-> w,
     symbols |-> symbols,
     used |-> [c \in symbols |-> IF c \in DOMAIN w THEN w[c].num ELSE 0]]

Mapped(w) == {map_symbol(k) : k \in DOMAIN w}

Analysis(pw) ==
    IF pw.result.raised
    THEN [raised |-> TRUE, parser |-> pw.parser, exc |-> pw.result.exc]
    ELSE [raised |-> FALSE, parser |-> pw.parser,
          value |-> Columns(pw.result.value, Mapped(pw.result.value))]

\* tool_portfolio_analysis up to the figures: the weights with the parser
\* that gave them, and the columns
tool_portfolio_analysis(portfolio) == Analysis(portfolio_weights(portfolio))

\* risk_fit_label with the comparisons made non-strict
risk_fit_label_le(vol, tolerance) ==
    LET t == Strip(Lower(IF tolerance = None THEN "" ELSE tolerance[1]))
    IN  IF t \in {"conservative", "low"} THEN (IF vol <= 10 THEN "fit" ELSE "too volatile")
        ELSE IF t \in {"moderate", "medium"} THEN (IF vol <= 20 THEN "fit" ELSE "too volatile")
        ELSE IF t \in {"aggressive", "high"} THEN (IF vol <= 35 THEN "fit" ELSE "too volatile")
        ELSE "unknown"

\* risk_fit_label; vol in hundredths (0.10 is 10)
risk_fit_label(vol, tolerance) ==
    LET t == Strip(Lower(IF tolerance = None THEN "" ELSE tolerance[1]))
    IN  IF t \in {"conservative", "low"} THEN (IF vol < 10 THEN "fit" ELSE "too volatile")
        ELSE IF t \in {"moderate", "medium"} THEN (IF vol < 20 THEN "fit" ELSE "too volatile")
        ELSE IF t \in {"aggressive", "high"} THEN (IF vol < 35 THEN "fit" ELSE "too volatile")
        ELSE "unknown"

(***************************************************************************)
(* The allocation functions applied to sample arguments                    *)
(***************************************************************************)
MaxWeight == 3

MaxVol == 36

AllocSymbols == {"NVDA", "TSLA", "BND"}

\* the weight mappings handed to normalize_allocations
Allocations == UNION {[S -> -1..MaxWeight] : S \in SUBSET AllocSymbols}

\* the tolerances handed to risk_fit_label
Tolerances ==
    {None} \cup {<<t>> : t \in {"conservative", "moderate", "aggressive", "low", "medium",
                                "high", " Moderate ", "CONSERVATIVE", "yolo", ""}}

\* The portfolio arguments handed to tool_portfolio_analysis, each with the
\* entries <<symbol, number>> it states, in the order it states them.
Str(t, es) == [form |-> "str", text |-> t, entries |-> es]

Portfolios ==
    { Str("50% NVDA, 30% TSLA, 20% bonds", <<<<"NVDA", 50>>, <<"TSLA", 30>>, <<"bonds", 20>>>>),
      Str("30% bonds, 20% BND, 50% NVDA", <<<<"bonds", 30>>, <<"BND", 20>>, <<"NVDA", 50>>>>),
      Str("25% NVDA, 25% nvda, 50% TSLA", <<<<"NVDA", 25>>, <<"nvda", 25>>, <<"TSLA", 50>>>>),
      Str("60% AAPL and 40% BND", <<<<"AAPL", 60>>, <<"BND", 40>>>>),
      Str("50% F and 50% T", <<<<"F", 50>>, <<"T", 50>>>>),
      Str("12.5% NVDA, 87.5% TSLA", <<<<"NVDA", 125>>, <<"TSLA", 875>>>>),
      Str("{\"BONDS\": 30, \"BND\": 20, \"NVDA\": 50}",
          <<<<"BONDS", 30>>, <<"BND", 20>>, <<"NVDA", 50>>>>),
      Str("{\"AAPL\": 60, \"BND\": 40}", <<<<"AAPL", 60>>, <<"BND", 40>>>>),
      Str("my portfolio: {'AAPL': 60, 'TSLA': 40} thanks",
          <<<<"AAPL", 60>>, <<"TSLA", 40>>>>),
      Str("BONDS: 30, BND: 20, NVDA: 50", <<<<"BONDS", 30>>, <<"BND", 20>>, <<"NVDA", 50>>>>),
      Str("NVDA: 25, NVDA: 25, TSLA: 50", <<<<"NVDA", 25>>, <<"NVDA", 25>>, <<"TSLA", 50>>>>),
      Str("AAPL=60, TSLA=40", <<<<"AAPL", 60>>, <<"TSLA", 40>>>>),
      Str("{\"AAPL\": 0}", <<<<"AAPL", 0>>>>),
      Str("hello", <<>>),
      Str("", <<>>) }
    \cup
    { [form |-> "dict", items |-> es, entries |-> es] :
        es \in { <<<<"BONDS", 30>>, <<"BND", 20>>, <<"NVDA", 50>>>>,
                 <<<<"NVDA", 60>>, <<"BND", 40>>>>,
                 <<<<"nvda", 1>>, <<"NVDA", 3>>>>,
                 <<<<"AGG", 6>>, <<"LQD", 2>>, <<"TLT", 2>>>>,
                 <<<<"NVDA", 0>>>>,
                 <<>> } }

AllocInputs ==
    {[kind |-> "tool_portfolio_analysis", portfolio |-> p] : p \in Portfolios}
        \cup {[kind |-> "normalize_allocations", alloc |-> a] : a \in Allocations}
        \cup {[kind |-> "risk_fit_label", vol |-> v, tolerance |-> t] :
                 v \in 0..MaxVol, t \in Tolerances}

InitAlloc ==
    /\ PipelineIdle
    /\ cache = NoFile /\ clock = 0 /\ resolves = 0 /\ last = [fn |-> NoValue]
    /\ puts = <<>> /\ writers = <<>>
    /\ readOut = [symbol |-> NoValue]
    /\ fraudIn = [via |-> NoValue] /\ fraudOut = [via |-> NoValue]
    /\ allocIn \in AllocInputs
    /\ allocOut = [kind |-> NoValue]
    /\ LaterIdle

\* tool_portfolio_analysis(portfolio)
PortfolioAnalysis ==
    /\ allocIn.kind = "tool_portfolio_analysis"
    /\ allocOut.kind = NoValue
    /\ allocOut' = [kind |-> allocIn.kind, out |-> tool_portfolio_analysis(allocIn.portfolio)]
    /\ UNCHANGED <<pipelineVars, cache, clock, resolves, last, puts, writers, readOut,
                   fraudIn, fraudOut, allocIn, laterVars>>

\* normalize_allocations(alloc)
Normalize ==
    /\ allocIn.kind = "normalize_allocations"
    /\ allocOut.kind = NoValue
    /\ allocOut' = [kind |-> allocIn.kind, out |-> normalize_allocations(allocIn.alloc)]
    /\ UNCHANGED <<pipelineVars, cache, clock, resolves, last, puts, writers, readOut,
                   fraudIn, fraudOut, allocIn, laterVars>>

\* risk_fit_label(vol, tolerance)
RiskFit ==
    /\ allocIn.kind = "risk_fit_label"
    /\ allocOut.kind = NoValue
    /\ allocOut' = [kind |-> allocIn.kind,
                    out |-> risk_fit_label(allocIn.vol, allocIn.tolerance)]
    /\ UNCHANGED <<pipelineVars, cache, clock, resolves, last, puts, writers, readOut,
                   fraudIn, fraudOut, allocIn, laterVars>>

NextAlloc == PortfolioAnalysis \/ Normalize \/ RiskFit

SpecAlloc == InitAlloc /\ [][NextAlloc]_vars

Analysed == allocOut.kind = "tool_portfolio_analysis"

\* the weights came from parse_percent_alloc: neither earlier form matched
PercentForm == allocOut.out.parser = "parse_percent_alloc"

\* C22: for free-text percent input every weight is stored under the
\* alias-mapped symbol, the one whose history is fetched and which the return
\* and volatility computations weigh with it: "50% NVDA, 30% TSLA, 20% bonds"
\* gives NVDA 0.5, TSLA 0.3, BND 0.2.
C22_PercentKeysAliasMapped ==
    (Analysed /\ PercentForm /\ ~allocOut.out.raised) =>
        LET r == allocOut.out.value
        IN  \A k \in DOMAIN r.weights :
                /\ map_symbol(k) = k
                /\ r.used[map_symbol(k)] = r.weights[k].num


RECURSIVE GCD(_, _)
GCD(a, b) == IF b = 0 THEN a ELSE GCD(b, a % b)

\* a / b = c / d, for b, d > 0
SameFraction(a, b, c, d) ==
    /\ a \div GCD(a, b) = c \div GCD(c, d)
    /\ b \div GCD(a, b) = d \div GCD(c, d)

\* the sum of the numbers the entries state for the symbols that map to c
Stated(entries, c) ==
    Sum([i \in 1..Len(entries) |-> IF map_symbol(entries[i][1]) = c THEN entries[i][2] ELSE 0])

\* C23: in every accepted input form, entries that resolve to the same
\* canonical symbol have their weights summed before normalization: the
\* weight of a symbol is the sum of the numbers stated for it over the sum of
\* all the numbers stated.
C23_DuplicatesAccumulate ==
    (Analysed /\ ~allocOut.out.raised) =>
        LET es == allocIn.portfolio.entries
            w == allocOut.out.value.weights
            total == Sum([i \in 1..Len(es) |-> es[i][2]])
        IN  \A i \in 1..Len(es) :
                LET c == map_symbol(es[i][1])
                IN  /\ c \in DOMAIN w
                    /\ SameFraction(w[c].num, w[c].den, Stated(es, c), total)

Normalized == allocOut.kind = "normalize_allocations"

\* C24: normalize_allocations raises when the weights total <= 0; otherwise it
\* returns a mapping over the same symbols whose weights sum to 1 and are in
\* the proportions of the given weights.
C24_NormalizeSumsToOne ==
    Normalized =>
        LET W == allocIn.alloc
            r == allocOut.out
        IN  /\ r.raised <=> SumValues(W) <= 0
            /\ ~r.raised =>
                   /\ DOMAIN r.value = DOMAIN W
                   /\ \A k \in DOMAIN W : r.value[k].den > 0
                   /\ \A j, k \in DOMAIN W : r.value[j].den = r.value[k].den
                   /\ \A k \in DOMAIN W :
                          SumValues([j \in DOMAIN W |-> r.value[j].num]) = r.value[k].den
                   /\ \A j, k \in DOMAIN W : r.value[j].num * W[k] = r.value[k].num * W[j]

\* two symbols with different weights have been normalized, one of them negative
C24_Witness ==
    /\ Normalized
    /\ ~allocOut.out.raised
    /\ \E j, k \in DOMAIN allocIn.alloc : allocIn.alloc[j] < 0 /\ allocIn.alloc[k] > 1

\* a mapping with total <= 0 made normalize_allocations raise
C24_WitnessRaise ==
    Normalized /\ allocOut.out.raised /\ DOMAIN allocIn.alloc # {}

Labelled == allocOut.kind = "risk_fit_label"

\* the tolerances risk_fit_label knows, with their thresholds in hundredths
THRESHOLD ==
    [conservative |-> 10, low |-> 10, moderate |-> 20, medium |-> 20,
     aggressive |-> 35, high |-> 35]

\* C25: risk_fit_label returns "fit" iff the volatility is strictly below the
\* threshold of the tolerance (conservative 0.10, moderate 0.20, aggressive
\* 0.35) and "too volatile" otherwise, so a volatility equal to the threshold
\* is "too volatile"; a tolerance it does not recognize yields "unknown".
C25_StrictThresholds ==
    Labelled =>
        LET t == Strip(Lower(IF allocIn.tolerance = None THEN "" ELSE allocIn.tolerance[1]))
        IN  IF t \in DOMAIN THRESHOLD
            THEN /\ allocOut.out = "fit" <=> allocIn.vol < THRESHOLD[t]
                 /\ allocOut.out = "too volatile" <=> allocIn.vol >= THRESHOLD[t]
            ELSE allocOut.out = "unknown"

\* a volatility exactly at the conservative threshold was labelled
C25_Witness ==
    /\ Labelled
    /\ allocIn.tolerance = <<"conservative">>
    /\ allocIn.vol = 10
    /\ allocOut.out = "too volatile"

\* an unrecognized tolerance was labelled
C25_WitnessUnknown ==
    Labelled /\ allocIn.tolerance = <<"yolo">> /\ allocOut.out = "unknown"


(***************************************************************************)
(* The router and the allocation parser                                    *)
(***************************************************************************)
\* parse_percent_alloc finds an "NN% SYMBOL" pair in the utterance
HasPercentPair ==
    [u \in Inputs |-> IndexFrom(u, "%", 1) # 0 /\ FirstMatch(PERCENT_PAIR, u, 0) # <<>>]

\* C26: an utterance that matches no earlier branch and contains an
\* "NN% SYMBOL" pair the allocation parser accepts (one-letter tickers
\* included) is routed to portfolio analysis, not to the ticker-price or the
\* freeform branch.
C26_PercentTextRoutesToAnalysis ==
    branch \in {"implicit_price", "freeform"} => ~HasPercentPair[user_in]

\* the text after the prefix: user_in.split("analyze portfolio", 1)[1].strip()
AnalyzeText(u) == Strip(AfterFirst(u, "analyze portfolio"))

\* tool_portfolio_analysis recovers an allocation from the text of an
\* "analyze portfolio <text>" utterance
ParserAccepts ==
    [u \in Inputs |->
        /\ RouteOf[u] = "analyze"
        /\ Contains(u, "analyze portfolio")
        /\ ~portfolio_weights([form |-> "str", text |-> AnalyzeText(u)]).result.raised]

USAGE_HINT == "Example: analyze portfolio 50% AAPL, 30% TSLA, 20% bonds"

\* C27: an "analyze portfolio <text>" utterance gets the usage hint, with no
\* handler and no chat call, iff the allocation parser cannot recover an
\* allocation from <text>; when <text> is in an accepted form the analysis
\* handler is dispatched.
C27_HintIffUnparseable ==
    (branch = "analyze" /\ pc # "crash") =>
        /\ (printed = USAGE_HINT /\ fsCalls = 0 /\ invoked = <<>> /\ chatLog = <<>>)
               <=> ~ParserAccepts[user_in]
        /\ ParserAccepts[user_in] =>
               (fsCalls = 1 /\ handlers = <<"tool_portfolio_analysis">>)


(***************************************************************************)
(* agent/memory.py: the store                                              *)
(*                                                                         *)
(* A table is the sequence of its rows in rowid order.  users is indexed   *)
(* by id; NULL is the user_id of a global counterparty.  The timestamps    *)
(* and the times_used counter of a row are left out.  A SELECT without     *)
(* ORDER BY that is read with fetchone() may return any matching row.      *)
(***************************************************************************)
NULL == 0

MaxCalls == 3

UserNames == <<"U", "V">>

UserIds == 1..Len(UserNames)

PayeeNames == {"ConEd", "coned", "Con Edison"}

RiskNames == {"moderate", "aggressive"}

\* the rows of a table that satisfy a test, as a set of positions
Where(rows, Test(_)) == {i \in 1..Len(rows) : Test(rows[i])}

\* DELETE FROM ... WHERE
RECURSIVE Delete(_, _)
Delete(rows, gone) ==
    IF rows = <<>> THEN <<>>
    ELSE Delete(SubSeq(rows, 1, Len(rows) - 1), gone)
             \o (IF Len(rows) \in gone THEN <<>> ELSE <<rows[Len(rows)]>>)

\* SELECT id FROM users WHERE name=?: the id, NULL if there is no such user
UserId(name) ==
    IF \E u \in UserIds : UserNames[u] = name
    THEN CHOOSE u \in UserIds : UserNames[u] = name ELSE NULL

\* list_counterparties: the user's and the global names, the first spelling
\* of each kept, sorted (here: as a set)
list_counterparties(d, user) ==
    LET mine == Where(d.counterparties, LAMBDA r : r.user_id = user \/ r.user_id = NULL)
    IN  {d.counterparties[i].counterparty : i \in
            {i \in mine : \A j \in mine :
                j < i => Lower(d.counterparties[j].counterparty)
                             # Lower(d.counterparties[i].counterparty)}}

\* upsert_counterparty
upsert_counterparty(d, user, name) ==
    IF \E i \in 1..Len(d.counterparties) :
           /\ d.counterparties[i].user_id = user
           /\ d.counterparties[i].counterparty = Strip(name)
    THEN d
    ELSE [d EXCEPT !.counterparties =
             Append(@, [user_id |-> user, counterparty |-> Strip(name)])]

\* rename_counterparty: the outcomes [store, out] it may have
rename_counterparty(d, user_id, old_name, new_name) ==
    LET old == Strip(old_name)
        new == Strip(new_name)
        cps == d.counterparties
        user_old == Where(cps, LAMBDA r : r.user_id = user_id /\ Lower(r.counterparty) = Lower(old))
        user_new == Where(cps, LAMBDA r : r.user_id = user_id /\ Lower(r.counterparty) = Lower(new))
        global_old == Where(cps, LAMBDA r : r.user_id = NULL /\ Lower(r.counterparty) = Lower(old))
    IN  IF old = "" \/ new = "" THEN {[store |-> d, out |-> "not_found"]}
        ELSE IF user_old # {}
        THEN IF user_new # {}
             THEN {[store |-> [d EXCEPT !.counterparties = Delete(cps, {i})],
                    out |-> "merged"] : i \in user_old}
             ELSE {[store |-> [d EXCEPT !.counterparties[i].counterparty = new],
                    out |-> "renamed"] : i \in user_old}
        ELSE IF global_old = {} THEN {[store |-> d, out |-> "not_found"]}
        ELSE IF user_new # {}
        THEN {[store |-> [d EXCEPT !.counterparties = Delete(cps, global_old)],
               out |-> "merged"]}
        ELSE {[store |-> [d EXCEPT !.counterparties =
                             Delete([cps EXCEPT ![i] = [user_id |-> user_id, counterparty |-> new]],
                                    global_old \ {i})],
               out |-> "renamed"] : i \in global_old}

\* set_memory
set_memory(d, user, key) == [d EXCEPT !.memories = Append(@, [user_id |-> user, key |-> key])]

\* save_portfolio
save_portfolio(d, user) == [d EXCEPT !.portfolios = Append(@, [user_id |-> user])]

\* set_risk_tolerance
set_risk_tolerance(d, user, t) == [d EXCEPT !.users[user].risk_tolerance = t]

\* forget_user with the WHERE clause of the first DELETE left out
forget_user_all(d, name) ==
    LET u == UserId(name)
    IN  IF u = NULL THEN d
        ELSE [d EXCEPT !.memories = <<>>,
                       !.portfolios = Delete(@, Where(@, LAMBDA r : r.user_id = u)),
                       !.users[u].risk_tolerance = "moderate"]

\* forget_user
forget_user(d, name) ==
    LET u == UserId(name)
    IN  IF u = NULL THEN d
        ELSE [d EXCEPT !.memories = Delete(@, Where(@, LAMBDA r : r.user_id = u)),
                       !.portfolios = Delete(@, Where(@, LAMBDA r : r.user_id = u)),
                       !.users[u].risk_tolerance = "moderate"]

\* connect() on a new file, then upsert_user for each user: the schema, the
\* global counterparties of the seed file if there is one, the users
InitMemory ==
    /\ PipelineIdle
    /\ cache = NoFile /\ clock = 0 /\ resolves = 0 /\ last = [fn |-> NoValue]
    /\ puts = <<>> /\ writers = <<>>
    /\ readOut = [symbol |-> NoValue]
    /\ fraudIn = [via |-> NoValue] /\ fraudOut = [via |-> NoValue]
    /\ allocIn = [kind |-> NoValue] /\ allocOut = [kind |-> NoValue]
    /\ vader = [made |-> 0] /\ threads = <<>>
    /\ agentCall = [input |-> NoValue] /\ forgotten = -1
    /\ \E seed \in {<<>>, <<[user_id |-> NULL, counterparty |-> "ConEd"]>>} :
           store = [users |-> [u \in UserIds |-> [name |-> UserNames[u],
                                                   risk_tolerance |-> "moderate"]],
                    memories |-> <<>>, portfolios |-> <<>>, counterparties |-> seed]
    /\ storeCall = [seq |-> 0]

\* one call on the store: what it was given, the store before, what it returned
Call(fn, args, out) ==
    [seq |-> storeCall.seq + 1, fn |-> fn, args |-> args, before |-> store, out |-> out]

memoryFrame ==
    <<pipelineVars, cache, clock, resolves, last, puts, writers, readOut,
      fraudIn, fraudOut, allocIn, allocOut, vader, threads, agentCall, forgotten>>

UpsertCounterparty ==
    /\ storeCall.seq < MaxCalls
    /\ \E u \in UserIds, n \in PayeeNames :
           /\ store' = upsert_counterparty(store, u, n)
           /\ storeCall' = Call("upsert_counterparty", <<u, n>>, "")
    /\ UNCHANGED memoryFrame

RenameCounterparty ==
    /\ storeCall.seq < MaxCalls
    /\ \E u \in UserIds, old \in PayeeNames \cup {" "}, new \in PayeeNames :
           \E r \in rename_counterparty(store, u, old, new) :
               /\ store' = r.store
               /\ storeCall' = Call("rename_counterparty", <<u, old, new>>, r.out)
    /\ UNCHANGED memoryFrame

SetMemory ==
    /\ storeCall.seq < MaxCalls
    /\ \E u \in UserIds :
           /\ store' = set_memory(store, u, "chat")
           /\ storeCall' = Call("set_memory", <<u>>, "")
    /\ UNCHANGED memoryFrame

SavePortfolio ==
    /\ storeCall.seq < MaxCalls
    /\ \E u \in UserIds :
           /\ store' = save_portfolio(store, u)
           /\ storeCall' = Call("save_portfolio", <<u>>, "")
    /\ UNCHANGED memoryFrame

SetRiskTolerance ==
    /\ storeCall.seq < MaxCalls
    /\ \E u \in UserIds, t \in RiskNames :
           /\ store' = set_risk_tolerance(store, u, t)
           /\ storeCall' = Call("set_risk_tolerance", <<u, t>>, "")
    /\ UNCHANGED memoryFrame

ForgetUser ==
    /\ storeCall.seq < MaxCalls
    /\ \E n \in {"U", "V", "nobody"} :
           /\ store' = forget_user(store, n)
           /\ storeCall' = Call("forget_user", <<n>>, "")
    /\ UNCHANGED memoryFrame

NextMemory ==
    \/ UpsertCounterparty
    \/ RenameCounterparty
    \/ SetMemory
    \/ SavePortfolio
    \/ SetRiskTolerance
    \/ ForgetUser

SpecMemory == InitMemory /\ [][NextMemory]_vars

Renamed ==
    /\ storeCall.seq > 0
    /\ storeCall.fn = "rename_counterparty"
    /\ storeCall.out \in {"renamed", "merged"}

\* C28: after rename_counterparty(user, old, new) has returned "renamed" or
\* "merged", list_counterparties(user) contains the new name (in some
\* spelling) and no longer contains the old name, also when the old name was
\* on record only as a global row that the call promotes to the user.
C28_RenameReplacesOldName ==
    Renamed =>
        LET old == Strip(storeCall.args[2])
            new == Strip(storeCall.args[3])
            names == list_counterparties(store, storeCall.args[1])
        IN  /\ \E n \in names : Lower(n) = Lower(new)
            /\ Lower(old) # Lower(new) => old \notin names

Forgotten ==
    /\ storeCall.seq > 0
    /\ storeCall.fn = "forget_user"
    /\ UserId(storeCall.args[1]) # NULL

\* the rows of a table that belong to a user
RowsOf(rows, u) == SelectSeq(rows, LAMBDA r : r.user_id = u)

\* C29: after forget_user for a user, no memories or portfolios row of that
\* user remains and the user's stored risk tolerance is "moderate"; the
\* counterparties table and every other user's rows are as they were.
C29_ForgetDeletesOnlyOwnRows ==
    Forgotten =>
        LET u == UserId(storeCall.args[1])
            was == storeCall.before
        IN  /\ RowsOf(store.memories, u) = <<>>
            /\ RowsOf(store.portfolios, u) = <<>>
            /\ store.users[u].risk_tolerance = "moderate"
            /\ store.counterparties = was.counterparties
            /\ \A v \in UserIds \ {u} :
                   /\ store.users[v] = was.users[v]
                   /\ RowsOf(store.memories, v) = RowsOf(was.memories, v)
                   /\ RowsOf(store.portfolios, v) = RowsOf(was.portfolios, v)

\* a user with a memory on record was forgotten while the other user had a
\* memory of their own
C29_Witness ==
    /\ Forgotten
    /\ LET u == UserId(storeCall.args[1])
       IN  /\ RowsOf(storeCall.before.memories, u) # <<>>
           /\ \E v \in UserIds \ {u} : RowsOf(store.memories, v) # <<>>


(***************************************************************************)
(* agent/tools.py: _get_vader                                              *)
(*                                                                         *)
(* vader.inst is the module global _vader (0 is None, n the n-th analyzer  *)
(* that was constructed), vader.lock the thread that holds _vader_lock (0: *)
(* nobody), vader.made the number of analyzers constructed, and            *)
(* vader.downloads the number of nltk.download calls made.  Each thread    *)
(* calls _get_vader up to MaxGets times; a thread's record holds where its *)
(* current call stands and, of its latest call, whether _vader was set     *)
(* when the call began, whether the call took the lock, and its result.    *)
(***************************************************************************)
MaxThreads == 2

MaxGets == 2

Threads == 1..MaxThreads

\* the test made again once the lock is held
SecondCheck_skipped(v) == FALSE

\* if _vader is not None (with _vader_lock held)
SecondCheck(v) == v.inst # 0

InitVader ==
    /\ PipelineIdle
    /\ cache = NoFile /\ clock = 0 /\ resolves = 0 /\ last = [fn |-> NoValue]
    /\ puts = <<>> /\ writers = <<>>
    /\ readOut = [symbol |-> NoValue]
    /\ fraudIn = [via |-> NoValue] /\ fraudOut = [via |-> NoValue]
    /\ allocIn = [kind |-> NoValue] /\ allocOut = [kind |-> NoValue]
    /\ store = [users |-> <<>>] /\ storeCall = [seq |-> 0]
    /\ agentCall = [input |-> NoValue] /\ forgotten = -1
    /\ vader = [inst |-> 0, lock |-> 0, made |-> 0, downloads |-> 0]
    /\ threads = [t \in Threads |->
                     [pc |-> "idle", gets |-> 0, init |-> FALSE, locked |-> FALSE,
                      ret |-> 0, raised |-> FALSE]]

vaderFrame ==
    <<pipelineVars, cache, clock, resolves, last, puts, writers, readOut,
      fraudIn, fraudOut, allocIn, allocOut, store, storeCall, agentCall, forgotten>>

\* the call of thread t ends: with _vader returned, or with an exception
Returned(t, value) ==
    [threads EXCEPT ![t].pc = "idle", ![t].gets = @ + 1, ![t].ret = value]

Raised(t) ==
    [threads EXCEPT ![t].pc = "idle", ![t].gets = @ + 1, ![t].ret = 0, ![t].raised = TRUE]

\* _get_vader is called: the test before the lock
FirstCheck(t) ==
    /\ threads[t].pc = "idle"
    /\ threads[t].gets < MaxGets
    /\ LET begun == [threads EXCEPT ![t].init = vader.inst # 0, ![t].locked = FALSE,
                                    ![t].ret = 0, ![t].raised = FALSE]
       IN  threads' = IF vader.inst # 0
                      THEN [begun EXCEPT ![t].pc = "idle", ![t].gets = @ + 1,
                                         ![t].ret = vader.inst]
                      ELSE [begun EXCEPT ![t].pc = "acquire"]
    /\ UNCHANGED <<vader, vaderFrame>>

\* with _vader_lock
Acquire(t) ==
    /\ threads[t].pc = "acquire"
    /\ vader.lock = 0
    /\ vader' = [vader EXCEPT !.lock = t]
    /\ threads' = [threads EXCEPT ![t].pc = "check2", ![t].locked = TRUE]
    /\ UNCHANGED vaderFrame

\* the test under the lock
Check2(t) ==
    /\ threads[t].pc = "check2"
    /\ IF SecondCheck(vader)
       THEN /\ threads' = Returned(t, vader.inst)
            /\ vader' = [vader EXCEPT !.lock = 0]
       ELSE /\ threads' = [threads EXCEPT ![t].pc = "construct"]
            /\ UNCHANGED vader
    /\ UNCHANGED vaderFrame

\* _vader = SentimentIntensityAnalyzer(): an analyzer, LookupError (the
\* lexicon is missing) or another exception, which leaves _get_vader
Construct(t) ==
    /\ threads[t].pc = "construct"
    /\ \E outcome \in {"ok", "LookupError", "error"} :
           CASE outcome = "ok" ->
                    /\ vader' = [vader EXCEPT !.inst = vader.made + 1, !.made = @ + 1]
                    /\ threads' = [threads EXCEPT ![t].pc = "return"]
             [] outcome = "LookupError" ->
                    /\ threads' = [threads EXCEPT ![t].pc = "download"]
                    /\ UNCHANGED vader
             [] OTHER ->
                    /\ threads' = Raised(t)
                    /\ vader' = [vader EXCEPT !.lock = 0]
    /\ UNCHANGED vaderFrame

\* except LookupError: nltk.download, then the constructor again
Download(t) ==
    /\ threads[t].pc = "download"
    /\ \E outcome \in {"ok", "error"} :
           IF outcome = "ok"
           THEN /\ vader' = [vader EXCEPT !.inst = vader.made + 1, !.made = @ + 1,
                                          !.downloads = @ + 1]
                /\ threads' = [threads EXCEPT ![t].pc = "return"]
           ELSE /\ threads' = Raised(t)
                /\ vader' = [vader EXCEPT !.lock = 0, !.downloads = @ + 1]
    /\ UNCHANGED vaderFrame

\* return _vader, which leaves the with block
ReturnVader(t) ==
    /\ threads[t].pc = "return"
    /\ threads' = Returned(t, vader.inst)
    /\ vader' = [vader EXCEPT !.lock = 0]
    /\ UNCHANGED vaderFrame

NextVader ==
    \E t \in Threads :
        \/ FirstCheck(t)
        \/ Acquire(t)
        \/ Check2(t)
        \/ Construct(t)
        \/ Download(t)
        \/ ReturnVader(t)

SpecVader == InitVader /\ [][NextVader]_vars

\* C30: whatever the interleaving of the threads' _get_vader calls, at most
\* one analyzer is ever constructed, every call that returns returns that
\* one analyzer, and a call that begins when _vader is set returns it at
\* once, without taking the lock.
C30_ConstructedOnce ==
    /\ vader.made <= 1
    /\ \A t \in Threads :
           /\ threads[t].ret # 0 => threads[t].ret = vader.inst
           /\ \A o \in Threads :
                  (threads[t].ret # 0 /\ threads[o].ret # 0) => threads[t].ret = threads[o].ret
           /\ threads[t].init =>
                  /\ ~threads[t].locked
                  /\ threads[t].pc = "idle"
                  /\ threads[t].ret = vader.inst
           /\ vader.lock = t <=> threads[t].pc \in {"check2", "construct", "download", "return"}

\* both threads got past the first test while _vader was None, one of them
\* constructed the analyzer and the other, having taken the lock after it,
\* returned that analyzer; a later call returned it without the lock
C30_Witness ==
    /\ vader.made = 1
    /\ \E t \in Threads : \E o \in Threads \ {t} :
           /\ threads[t].ret = 1 /\ threads[t].init /\ ~threads[t].locked
           /\ threads[o].ret = 1 /\ ~threads[o].init /\ threads[o].locked
           /\ threads[o].gets = 1
           /\ threads[t].gets = 2

\* a thread waits for the lock while another constructs the analyzer
C30_WitnessWaiting ==
    \E t \in Threads : \E o \in Threads \ {t} :
        threads[t].pc = "acquire" /\ threads[o].pc = "return"

(***************************************************************************)
(* Claim C31: expiry of cache rows.  Writes are whole put_cached_price     *)
(* calls, the clock advances by the hour across a change of date, and a    *)
(* read may ask for any date.                                              *)
(***************************************************************************)
CacheDates == {today_str(22), today_str(MaxClock)}

InitExpiry ==
    /\ PipelineIdle
    /\ cache = NoFile
    /\ clock = 22
    /\ resolves = 0
    /\ last = [fn |-> NoValue]
    /\ puts = <<>>
    /\ writers = <<>>
    /\ readOut = [symbol |-> NoValue]
    /\ fraudIn = [via |-> NoValue]
    /\ fraudOut = [via |-> NoValue]
    /\ MoreIdle

\* put_cached_price(symbol, today, price)
PutPrice ==
    /\ Len(puts) < MaxPuts
    /\ \E symbol \in CacheSymbols, price \in CachePrices :
           /\ cache' = put_cached_price(cache, symbol, today_str(clock), price, clock, TRUE)
           /\ puts' = Append(puts, [symbol |-> Upper(symbol), date |-> today_str(clock),
                                    price |-> price, at |-> clock])
    /\ UNCHANGED <<clock, resolves, last, writers, readOut, fraudIn, fraudOut>>
    /\ UNCHANGED moreVars
    /\ UNCHANGED pipelineVars

\* an hour passes
Hour ==
    /\ clock < MaxClock
    /\ clock' = clock + 1
    /\ UNCHANGED <<cache, resolves, last, puts, writers, readOut, fraudIn, fraudOut>>
    /\ UNCHANGED moreVars
    /\ UNCHANGED pipelineVars

\* get_cached_price(symbol, date)
ReadPrice ==
    /\ \E symbol \in {"bnd", "NVDA"}, date \in CacheDates, readable \in BOOLEAN :
           readOut' = [symbol |-> symbol, date |-> date, nputs |-> Len(puts), at |-> clock,
                       readable |-> readable,
                       price |-> get_cached_price(cache, symbol, date, clock, readable)]
    /\ UNCHANGED <<cache, clock, resolves, last, puts, writers, fraudIn, fraudOut>>
    /\ UNCHANGED moreVars
    /\ UNCHANGED pipelineVars

NextExpiry == PutPrice \/ Hour \/ ReadPrice

SpecExpiry == InitExpiry /\ [][NextExpiry]_vars

\* a read was made and the file could be read
ReadDone == readOut.symbol # NoValue /\ readOut.readable

C31_WitnessExpired ==
    /\ ReadDone
    /\ RowsOfKey # {}
    /\ readOut.at - puts[Latest(RowsOfKey)].at > CACHE_TTL_HOURS
    /\ readOut.price = None

\* a lookup under another date gave a miss although the symbol has a fresh row
C31_WitnessOtherDate ==
    /\ ReadDone
    /\ RowsOfKey = {}
    /\ \E i \in 1..readOut.nputs :
           puts[i].symbol = Upper(readOut.symbol) /\ readOut.at - puts[i].at <= CACHE_TTL_HOURS
    /\ readOut.price = None

(***************************************************************************)
(* Claim C32: no retry within a resolution                                 *)
(***************************************************************************)
\* C32: within one resolution no source is queried twice: the primary
\* provider, the secondary provider's intraday query and its daily-close
\* query are each made at most once, whether the query gave a price, gave
\* none or raised (a timeout raises).
C32_NoRetry ==
    Resolved =>
        \A i, j \in 1..Len(last.calls) :
            last.calls[i].source = last.calls[j].source => i = j

\* a resolution in which the primary provider failed, the intraday query gave
\* nothing and the daily-close query raised: four queries and no price
C32_Witness ==
    /\ Resolved
    /\ last.fn = "get_latest_price"
    /\ Len(last.calls) = 4
    /\ last.src = "yfinance:error"
    /\ last.price = None

(***************************************************************************)
(* Claims C33 and C34: the session risk tolerance                          *)
(***************************************************************************)
RISK_LEVELS == {"conservative", "moderate", "aggressive"}

\* C33: whatever was said before, the risk tolerance that a portfolio
\* analysis is called with (risk_tolerance=risk_tol, in the analyze branch
\* and in the implicit-allocation branch) is one of "conservative",
\* "moderate", "aggressive".
C33_RiskPassedIsALevel ==
    (branch \in {"analyze", "implicit_alloc"} /\ fsCalls >= 1) => risk_tol \in RISK_LEVELS

\* C34: in persistent mode, whenever the loop is back at its prompt after an
\* utterance, the session's risk tolerance is the one stored for the user,
\* also when a database call of the branch raised.
C34_SessionMatchesStore ==
    (conn /\ pc = "input" /\ turns >= 1) => risk_tol = dbRisk

(***************************************************************************)
(* AgentWithMemory.invoke called directly, one call after the other on the *)
(* same agent.                                                             *)
(***************************************************************************)
MaxInvokes == 3

AgentInputs == Questions \cup {"Is SPOOFING legal", "any Surefire picks"}

InitAgent ==
    /\ PipelineIdle
    /\ ToolsIdle

\* agent.invoke({"input": user_msg})
Invoke ==
    /\ Len(mem) < MaxInvokes
    /\ \E user_msg \in AgentInputs, llm \in LLMOutcomes :
           /\ mem' = IF AgentInvoke(user_msg, llm).called
                     THEN Append(mem, AgentInvoke(user_msg, llm).turn) ELSE mem
           /\ agentCall' = Invoked(user_msg, mem, llm, AgentInvoke(user_msg, llm))
           /\ llmCalls' = llmCalls + (IF AgentInvoke(user_msg, llm).called THEN 1 ELSE 0)
    /\ UNCHANGED <<pc, mainVars, frameVars, fsCalls, forgotten>>
    /\ UNCHANGED deviceVars

NextAgent == Invoke

SpecAgent == InitAgent /\ [][NextAgent]_vars

AgentCalled == agentCall.input # NoValue

\* C36: when the input of AgentWithMemory.invoke contains a banned phrase (in
\* any letter case), the output is the fixed refusal, the executor is not
\* invoked and the conversation memory is what it was before the call.
C36_BlockedInputLeavesNoTrace ==
    (AgentCalled /\ HasBanned(agentCall.input)) =>
        /\ agentCall.output = REFUSAL
        /\ ~agentCall.called
        /\ agentCall.hist = <<>>
        /\ mem = agentCall.before

\* an input with a banned phrase in capitals was refused after an earlier turn
\* had been recorded
C36_Witness ==
    /\ AgentCalled
    /\ agentCall.input = "Is SPOOFING legal"
    /\ agentCall.output = REFUSAL
    /\ Len(mem) = 1

\* the answer the executor's outcome stands for: ai_msg
AiMsg(llm) == IF llm.raised THEN AGENT_APOLOGY ELSE llm.value

\* C37: the output of AgentWithMemory.invoke is the fixed refusal, or the
\* answer (the executor's, or the apology when it raised) followed by a blank
\* line and the standard disclaimer; either way it contains no banned phrase
\* in any letter case.
C37_OutputRefusalOrDisclaimed ==
    AgentCalled =>
        /\ \/ agentCall.output = REFUSAL
           \/ agentCall.output
                  = AiMsg(agentCall.llm) \o "\n\n" \o GENERIC_DISCLAIMER \o DISCLAIMER_TAIL
        /\ ~HasBanned(agentCall.output)

\* the executor raised and the output is the apology with the disclaimer
C37_Witness ==
    /\ AgentCalled
    /\ agentCall.called
    /\ agentCall.llm.raised
    /\ agentCall.output = AGENT_APOLOGY \o "\n\n" \o GENERIC_DISCLAIMER \o DISCLAIMER_TAIL

\* the executor's answer held a banned phrase and the output is the refusal
C37_WitnessRefused ==
    /\ AgentCalled
    /\ agentCall.called
    /\ ~agentCall.llm.raised
    /\ HasBanned(agentCall.llm.value)
    /\ agentCall.output = REFUSAL

(***************************************************************************)
(* One session of the command loop in which the user chats with the agent  *)
(* and asks to be forgotten: main's loop restricted to these inputs.       *)
(***************************************************************************)
MaxSession == 3

SessionUtterances == {"what is an ETF", "forget me"}

\* user_in = input("> ").strip(), for the inputs of a chat session
ReadSession ==
    /\ pc = "input"
    /\ turns < MaxSession
    /\ \E raw \in SessionUtterances :
        /\ user_in' = Strip(raw)
        /\ pc' = IF Strip(raw) = "" THEN "input" ELSE "route"
    /\ turns' = turns + 1
    /\ branch' = NoValue
    /\ printed' = NoValue
    /\ fpc' = "idle"
    /\ question' = ""
    /\ handlers' = <<>>
    /\ hi' = 0
    /\ ret' = NoValue
    /\ invoked' = <<>>
    /\ fsCalls' = 0
    /\ chatLog' = <<>>
    /\ chatText' = NoValue
    /\ llmCalls' = 0
    /\ agentCall' = [input |-> NoValue]
    /\ UNCHANGED <<conn, uid, risk_tol, tol, dbRisk, chat, mem, forgotten>>
    /\ UNCHANGED deviceVars

NextSession ==
    \/ ReadSession
    \/ ForgetMe
    \/ Freeform
    \/ Fallback
    \/ PrintOut

SpecSession == Init /\ [][NextSession]_vars

\* C35: an invocation of the agent made after a forget me command receives
\* as chat history only turns recorded after that command.
C35_NoHistoryFromBeforeForget ==
    (agentCall.input # NoValue /\ agentCall.called /\ forgotten >= 0) =>
        Len(agentCall.hist) <= Len(agentCall.before) - forgotten


\* C38: after rename_counterparty(user, old, new) has returned "renamed" or
\* "merged", for every old and new name, also two that differ only in letter
\* case or not at all, the counterparties table holds a row of the user, or a
\* global row, whose name equals the new name up to letter case.
C38_RenameKeepsARow ==
    Renamed =>
        \E i \in 1..Len(store.counterparties) :
            /\ store.counterparties[i].user_id \in {storeCall.args[1], NULL}
            /\ Lower(store.counterparties[i].counterparty) = Lower(Strip(storeCall.args[3]))

====
